---- MODULE Spec2Model ----
(***************************************************************************)
(* Alert pipeline of SafeKid-SaaS: services/AlertProcessor.js (throttle    *)
(* gate, delivery queue, worker loop), models/Alert.js (alert store) and   *)
(* the route-level detectors that persist alerts; after it, the detectors  *)
(* themselves: the device's message scoring (MessageSpec), the server's    *)
(* location checks (LocationSpec) and the call detectors of the device and *)
(* of the server (CallSpec); then single operations of the pipeline: the   *)
(* status writes (StatusSpec), spaced alerts of one key (ThrottleSpec),    *)
(* the pending sweep (SweepSpec) and shutdown (ShutdownSpec); and the      *)
(* tokens and the device guard of the protected routes (AccessSpec).       *)
(*                                                                         *)
(* Time is counted in minutes.  Every await of the JavaScript code is a    *)
(* point where another handler may run, so each async function is cut into *)
(* one action per stretch of code between two awaits that matter to the    *)
(* shared state (recentAlerts, processingQueue, the alerts table).         *)
(***************************************************************************)
EXTENDS Integers, Sequences, FiniteSets, TLC

(* ------------------------------ bounds --------------------------------- *)
\* Six workloads bound the runs of the pipeline under Spec and LiveSpec.
\*   "burst": the worker has been stopped; up to BurstAlerts alerts of a
\*     throttled type are submitted, by up to BurstCalls overlapping addAlert
\*     calls and by the route detectors, while the clock advances and
\*     Alert.createAlert may reject.
\*   "delivery": the worker runs; up to DeliveryAlerts alerts of priority
\*     'alta' are submitted, by up to DeliveryCalls overlapping calls.
\*   "critical": as "delivery", with up to CriticalAlerts alerts of priority
\*     'critica' and the worker's user lookup succeeding (the lookup of the
\*     inline delivery may fail).
\*   "lifecycle": as "delivery" with LifecycleAlerts alerts submitted one
\*     after the other and the user lookup succeeding, and the worker is
\*     stopped and started again, on up to MaxLoops loops.
\*   "quiet": as "delivery", with up to QuietAlerts alerts of the priorities
\*     'baixa' and 'media' submitted one after the other.
\*   "inbox": as "delivery" with InboxAlerts alerts submitted one after the
\*     other and the user lookup and the couriers succeeding, while the
\*     clock advances and the user marks alerts read.
\* Three more bound the runs of the specifications of single operations.
\*   "shutdown": as "lifecycle" with up to ShutdownAlerts alerts, and
\*     shutdown() is called once (ShutdownSpec).
\*   "pending": as "lifecycle" with up to PendingAlerts alerts, and
\*     processPendingAlerts() is called once (SweepSpec).
\*   a configured type: up to SpacedAlerts alerts of that type and priority
\*     'media' are submitted one after the other while the clock advances in
\*     MaxSpacedTicks steps of SpacedMinutes minutes (ThrottleSpec).
BurstAlerts == 3
BurstCalls == 3
DeliveryAlerts == 2
DeliveryCalls == 2
CriticalAlerts == 1
LifecycleAlerts == 1
QuietAlerts == 1
InboxAlerts == 1
MaxTicks == 2
TickMinutes == 30
MaxLoops == 2
ShutdownAlerts == 2
PendingAlerts == 2
SpacedAlerts == 8
SpacedMinutes == 5
MaxSpacedTicks == 13

(* ------------------------- program constants --------------------------- *)
maxRetries == 3
HourMinutes == 60
\* Date.now() counts from 1970: the first reading is far beyond any cooldown.
Epoch == 2 * HourMinutes

Users == {"u1"}
ThrottledTypes == {"mensagem_suspeita", "chamada_suspeita", "localizacao_risco",
                   "media_inapropriada", "dispositivo_offline", "palavra_chave"}

\* A mutation of throttleConfig: every cooldown is five minutes.
ShortCooldowns ==
  [t \in ThrottledTypes |->
     CASE t = "mensagem_suspeita"   -> [maxPerHour |-> 10, cooldownMinutes |-> 5]
       [] t = "chamada_suspeita"    -> [maxPerHour |-> 5,  cooldownMinutes |-> 5]
       [] t = "localizacao_risco"   -> [maxPerHour |-> 8,  cooldownMinutes |-> 5]
       [] t = "media_inapropriada"  -> [maxPerHour |-> 6,  cooldownMinutes |-> 5]
       [] t = "dispositivo_offline" -> [maxPerHour |-> 2,  cooldownMinutes |-> 5]
       [] t = "palavra_chave"       -> [maxPerHour |-> 15, cooldownMinutes |-> 5]]

throttleConfig ==
  [t \in ThrottledTypes |->
     CASE t = "mensagem_suspeita"   -> [maxPerHour |-> 10, cooldownMinutes |-> 15]
       [] t = "chamada_suspeita"    -> [maxPerHour |-> 5,  cooldownMinutes |-> 30]
       [] t = "localizacao_risco"   -> [maxPerHour |-> 8,  cooldownMinutes |-> 20]
       [] t = "media_inapropriada"  -> [maxPerHour |-> 6,  cooldownMinutes |-> 25]
       [] t = "dispositivo_offline" -> [maxPerHour |-> 2,  cooldownMinutes |-> 60]
       [] t = "palavra_chave"       -> [maxPerHour |-> 15, cooldownMinutes |-> 10]]

Workloads == {"burst", "delivery", "critical", "lifecycle", "quiet", "inbox"}

\* The (tipo_alerta, prioridade) pairs each workload submits to addAlert.
Candidates(w) ==
  IF w \in ThrottledTypes
  THEN { [tipo_alerta |-> w, prioridade |-> "media"] }
  ELSE IF w = "burst"
  THEN { [tipo_alerta |-> "dispositivo_offline", prioridade |-> "media"] }
  ELSE IF w = "critical"
  THEN { [tipo_alerta |-> "app_bloqueado", prioridade |-> "critica"] }
  ELSE IF w = "quiet"
  THEN { [tipo_alerta |-> "app_bloqueado", prioridade |-> "baixa"],
         [tipo_alerta |-> "app_bloqueado", prioridade |-> "media"] }
  ELSE { [tipo_alerta |-> "app_bloqueado", prioridade |-> "alta"] }

AlertInputs(w) ==
  { [user_id |-> u, tipo_alerta |-> c.tipo_alerta, prioridade |-> c.prioridade] :
      u \in Users, c \in Candidates(w) }

MaxAlerts(w) ==
  CASE w = "burst" -> BurstAlerts
    [] w = "delivery" -> DeliveryAlerts
    [] w = "critical" -> CriticalAlerts
    [] w = "lifecycle" -> LifecycleAlerts
    [] w = "quiet" -> QuietAlerts
    [] w = "inbox" -> InboxAlerts
    [] w = "shutdown" -> ShutdownAlerts
    [] w = "pending" -> PendingAlerts
    [] w \in ThrottledTypes -> SpacedAlerts

MaxCalls(w) ==
  CASE w = "burst" -> BurstCalls
    [] w \in {"lifecycle", "quiet", "inbox", "shutdown", "pending"} \cup ThrottledTypes -> 1
    [] OTHER -> DeliveryCalls

Keys == Users \X UNION { {c.tipo_alerta : c \in Candidates(w)} : w \in Workloads }

NoItem == [alert |-> 0, retries |-> 0]

VARIABLES
  workload,         \* which workload this run is
  now,              \* Date.now(), in minutes
  recentAlerts,     \* this.recentAlerts: key -> list of admission timestamps
  processingQueue,  \* this.processingQueue: list of {alert, retries}
  isProcessing,     \* this.isProcessing
  alerts,           \* the alerts table: row id = index
  creating,         \* addAlert calls suspended in `await Alert.createAlert`
  inlineCalls,      \* addAlert calls suspended in processAlertImmediately
  lastReturn,       \* what the addAlert call that returned last returned
  loops,            \* processQueue invocations (worker loops)
  emailLog,         \* per alert: outcomes of the email courier, in order
  attempts,         \* per alert: number of processAlert calls by the worker
  pushCalls,        \* per alert: number of calls of the push courier
  stopping,         \* the shutdown() call: where it is, its wait counter, what it found
  sweep,            \* the processPendingAlerts() call: what it found, what is left
  sms,              \* the device's MessageManager: monitoring flag, last message
  locations,        \* the locations table of one device and what the last POST raised
  phone,            \* the device's call log and patterns, the last call posted
  status,           \* rows whose delivery status updateAlertNotificationStatus writes
  access            \* the tokens the auth routes issued and the last response

\* The server's alert pipeline.
pipelineVars ==
  <<workload, now, recentAlerts, processingQueue, isProcessing, alerts,
    creating, inlineCalls, lastReturn, loops, emailLog, attempts, pushCalls,
    stopping, sweep>>

\* The detectors on the device and in the routes.
detectorVars == <<sms, locations, phone, status, access>>

\* What the steps of one detector leave alone.
exceptSms == <<pipelineVars, locations, phone, status, access>>
exceptLocations == <<pipelineVars, sms, phone, status, access>>
exceptPhone == <<pipelineVars, sms, locations, status, access>>
exceptStatus == <<pipelineVars, sms, locations, phone, access>>
exceptAccess == <<pipelineVars, sms, locations, phone, status>>

vars == <<pipelineVars, detectorVars>>

(* ------------------------------ helpers -------------------------------- *)
CacheKey(alertData) == <<alertData.user_id, alertData.tipo_alerta>>

RECURSIVE FilterAfter(_, _)
FilterAfter(s, bound) ==
  IF s = <<>> THEN <<>>
  ELSE IF Head(s) > bound THEN <<Head(s)>> \o FilterAfter(Tail(s), bound)
       ELSE FilterAfter(Tail(s), bound)

RECURSIVE MaxOf(_, _)
MaxOf(s, m) == IF s = <<>> THEN m
               ELSE MaxOf(Tail(s), IF Head(s) > m THEN Head(s) ELSE m)

\* this.recentAlerts.get(key) || []
WindowOf(ra, key) == IF key \in DOMAIN ra THEN ra[key] ELSE <<>>

\* this.recentAlerts.set(key, list)
WindowSet(ra, key, list) ==
  [k \in DOMAIN ra \cup {key} |-> IF k = key THEN list ELSE ra[k]]

ShouldThrottle(ra, alertData, t) ==
  IF alertData.tipo_alerta \notin DOMAIN throttleConfig THEN FALSE
  ELSE LET config == throttleConfig[alertData.tipo_alerta]
           recentAlertsThisHour ==
             FilterAfter(WindowOf(ra, CacheKey(alertData)), t - HourMinutes)
           lastAlert == MaxOf(recentAlertsThisHour, 0)
       IN  \/ Len(recentAlertsThisHour) >= config.maxPerHour
           \/ t - lastAlert < config.cooldownMinutes

\* The first test of shouldThrottle: the hourly limit.
HourlyCapReached(ra, alertData, t) ==
  /\ alertData.tipo_alerta \in DOMAIN throttleConfig
  /\ Len(FilterAfter(WindowOf(ra, CacheKey(alertData)), t - HourMinutes))
       >= throttleConfig[alertData.tipo_alerta].maxPerHour

\* The second test of shouldThrottle: the cooldown since the last alert of
\* the hour.
InCooldown(ra, alertData, t) ==
  /\ alertData.tipo_alerta \in DOMAIN throttleConfig
  /\ t - MaxOf(FilterAfter(WindowOf(ra, CacheKey(alertData)), t - HourMinutes), 0)
       < throttleConfig[alertData.tipo_alerta].cooldownMinutes

MarkAlertInCache(ra, alertData, t) ==
  WindowSet(ra, CacheKey(alertData), Append(WindowOf(ra, CacheKey(alertData)), t))

(* ----------------------------- couriers -------------------------------- *)
\* What a send*Notification promise resolves to.  Both functions catch every
\* error, so Promise.allSettled only ever sees fulfilled promises.
Sent    == [success |-> TRUE,  skipped |-> FALSE, messageId |-> TRUE]
Failed  == [success |-> FALSE, skipped |-> FALSE, messageId |-> FALSE]
Skipped == [success |-> TRUE,  skipped |-> TRUE,  messageId |-> FALSE]

CourierOutcomes == {"ok", "fail", "throw"}
UserLookups == {"found", "null", "throw"}

\* EmailService.sendEmail: resolves to success with the transport's
\* messageId, or to a failure when the transport reports or throws an error.
SendEmail(outcome) == IF outcome = "ok" THEN Sent ELSE Failed

ShouldSendEmail(prioridade) == prioridade \in {"alta", "critica"}

ShouldSendPush(prioridade) == prioridade # "baixa"

SendEmailNotification(prioridade, outcome) ==
  IF prioridade \in {"critica", "alta"} THEN SendEmail(outcome) ELSE Skipped

\* getUserPushToken returns null, so sendPushNotification always skips.
GetUserPushToken == FALSE

SendPushNotification(prioridade, outcome) ==
  IF ~GetUserPushToken THEN Skipped
  ELSE IF outcome = "ok" THEN Sent ELSE Failed

EmailInvoked(prioridade) == prioridade \in {"critica", "alta"}

RECURSIVE FindResult(_, _)
\* Array.prototype.find over the notification results; wantId selects on
\* the truthiness of value.messageId.
FindResult(results, wantId) ==
  IF results = <<>> THEN Failed
  ELSE IF ~Head(results).skipped /\ Head(results).messageId = wantId
       THEN Head(results)
       ELSE FindResult(Tail(results), wantId)

EmailSentOf(results) == FindResult(results, TRUE).success
PushSentOf(results) == FindResult(results, FALSE).success

\* Alert.updateById with both flags, then markEmailSent / markPushSent for
\* the flags that are true; the updates are taken to succeed, and every
\* updateById stamps updated_at.
UpdateAlertNotificationStatus(rows, id, results, t) ==
  [rows EXCEPT ![id].email_enviado = EmailSentOf(results),
               ![id].push_enviado = PushSentOf(results),
               ![id].updated_at = t]

RECURSIVE CountFailures(_)
CountFailures(results) ==
  IF results = <<>> THEN 0
  ELSE (IF Head(results).success THEN 0 ELSE 1) + CountFailures(Tail(results))

\* A mutation of ShouldRetry: the retry limit is compared with <=.
RetryOnceMore(failures, retries) == failures > 0 /\ retries <= maxRetries

ShouldRetry(failures, retries) == failures > 0 /\ retries < maxRetries

LogEmail(log, id, prioridade, outcome) ==
  IF EmailInvoked(prioridade)
  THEN [log EXCEPT ![id] = Append(@, IF outcome = "ok" THEN "ok" ELSE "fail")]
  ELSE log

\* sendPushNotification calls PushService only when the user has a token.
LogPush(calls, id) ==
  IF GetUserPushToken THEN [calls EXCEPT ![id] = @ + 1] ELSE calls

(* ------------------------------- store --------------------------------- *)
\* The evidence payload of an alert: opaque to the store.
DadosExtras(alertData) == <<"dados", alertData.tipo_alerta>>

\* Alert.createAlert -> BaseModel.create: one new row; the table defaults
\* lido, email_enviado and push_enviado to false and the timestamps to the
\* time of the insert.  gate records whether the row was inserted by
\* AlertProcessor.addAlert.
NewRow(alertData, t, viaGate) ==
  [user_id |-> alertData.user_id, tipo_alerta |-> alertData.tipo_alerta,
   prioridade |-> alertData.prioridade, dados_extras |-> DadosExtras(alertData),
   lido |-> FALSE, email_enviado |-> FALSE, push_enviado |-> FALSE,
   data_hora |-> t, updated_at |-> t, gate |-> viaGate]

\* A mutation of ReadUpdate: marking an alert read also lowers its priority.
ReadAndDowngrade(row, t) ==
  [row EXCEPT !.lido = TRUE, !.prioridade = "baixa", !.updated_at = t]

\* The update of Alert.markAsRead on one matching row.
ReadUpdate(row, t) == [row EXCEPT !.lido = TRUE, !.updated_at = t]

\* Alert.markAsRead(alertIds, userId): the rows whose id is listed and whose
\* user_id is userId.
MarkAsReadRows(rows, alertIds, userId, t) ==
  [i \in 1..Len(rows) |->
     IF i \in alertIds /\ rows[i].user_id = userId
     THEN ReadUpdate(rows[i], t) ELSE rows[i]]

AlertIds == 1..Len(alerts)

InQueue(id) == \E i \in 1..Len(processingQueue) : processingQueue[i].alert = id

RemoveAt(s, i) == SubSeq(s, 1, i - 1) \o SubSeq(s, i + 1, Len(s))

(* -------------------------------- Init --------------------------------- *)
\* The MessageManager before startSmsMonitoring, with no message seen.
NoMessage == [phoneNumber |-> <<>>, contactKnown |-> TRUE, content |-> <<>>,
              detectedKeywords |-> <<>>, riskScore |-> 0]

SmsIdle == [isMonitoring |-> FALSE, last |-> NoMessage, alert |-> "none"]

\* No location recorded yet; the server clock reads 20:00 of day 0.
FirstClock == 20

NoLocations(routine) == [routine |-> routine, clock |-> FirstClock, rows |-> <<>>, raised |-> <<>>]

\* No call seen yet by the device or by the server.
NoCall == [numero |-> <<>>, contato_nome |-> "null", duracao |-> 0, data_hora |-> 0]

PhoneIdle == [isMonitoring |-> FALSE, analysed |-> <<>>, patterns |-> <<>>,
              posted |-> NoCall, raised |-> <<>>]

\* No row under a delivery attempt of the status runs.
NoAttempt == [id |-> 0, results |-> <<>>]

NoStatus == [rows |-> <<>>, last |-> NoAttempt]

\* A jwt payload; no token is a request without Authorization header.
NoToken == [userId |-> "none", requires2FA |-> FALSE]

\* No token was issued and no request answered.
NoResponse == [route |-> "none", status |-> 0, user |-> "none", token |-> NoToken,
               target |-> "none"]
NoAccess == [tokens |-> {}, verified |-> {}, last |-> NoResponse]

\* processPendingAlerts() has not been called.
NoSweep == [pc |-> "idle", found |-> <<>>, rest |-> <<>>, attempted |-> <<>>]

\* shutdown() has not been called.
NoShutdown == [pc |-> "idle", waits |-> 0, found |-> <<>>, attempted |-> <<>>]

NoLoop == [pc |-> "none", item |-> NoItem, threw |-> FALSE, missing |-> FALSE]
NoReturn == "none"

\* The workloads other than "burst" start right after `new AlertProcessor()`:
\* init() has called startProcessing(), whose processQueue() found the queue
\* empty and sleeps.  "burst" starts after a stopProcessing() that the loop
\* has noticed.
PipelineStart(w) ==
  /\ workload = w
  /\ now = Epoch
  /\ recentAlerts = [k \in {} |-> <<>>]
  /\ processingQueue = <<>>
  /\ isProcessing = (workload # "burst")
  /\ alerts = <<>>
  /\ creating = <<>>
  /\ inlineCalls = {}
  /\ lastReturn = NoReturn
  /\ loops = [l \in 1..MaxLoops |->
                IF l = 1 /\ workload # "burst"
                THEN [NoLoop EXCEPT !.pc = "sleep"]
                ELSE NoLoop]
  /\ emailLog = <<>>
  /\ pushCalls = <<>>
  /\ attempts = <<>>
  /\ stopping = NoShutdown
  /\ sweep = NoSweep

PipelineInit == \E w \in Workloads : PipelineStart(w)

\* No message, location or call has reached a detector yet.
Init ==
  /\ PipelineInit
  /\ sms = SmsIdle
  /\ locations = NoLocations("home")
  /\ phone = PhoneIdle
  /\ status = NoStatus
  /\ access = NoAccess

(* ------------------------------- clock --------------------------------- *)
Tick ==
  /\ workload \in {"burst", "inbox"}
  /\ now + TickMinutes <= Epoch + MaxTicks * TickMinutes
  /\ now' = now + TickMinutes
  /\ UNCHANGED <<detectorVars, sweep, stopping, workload, recentAlerts, processingQueue, isProcessing, alerts,
                 creating, inlineCalls, lastReturn, loops, emailLog, attempts, pushCalls>>

(* ------------------------------ addAlert ------------------------------- *)
InFlight == Len(creating) + Cardinality(inlineCalls)

\* A mutation of WindowAfterCheck: the check stores its filtered list.
PruneOnCheck(ra, alertData, t) ==
  IF alertData.tipo_alerta \notin DOMAIN throttleConfig THEN ra
  ELSE WindowSet(ra, CacheKey(alertData),
                 FilterAfter(WindowOf(ra, CacheKey(alertData)), t - HourMinutes))

\* The window map after shouldThrottle: the check filters a copy of the
\* key's list and never stores it.
WindowAfterCheck(ra, alertData, t) == ra

\* addAlert up to its first await: the throttle check, then either the
\* throttled return or the call of Alert.createAlert.
AddAlert(alertData) ==
  /\ InFlight < MaxCalls(workload)
  /\ recentAlerts' = WindowAfterCheck(recentAlerts, alertData, now)
  /\ IF ShouldThrottle(recentAlerts, alertData, now)
     THEN /\ lastReturn' = "throttled"
          /\ UNCHANGED creating
     ELSE /\ creating' = Append(creating, alertData)
          /\ UNCHANGED lastReturn
  /\ UNCHANGED <<detectorVars, sweep, stopping, workload, now, processingQueue, isProcessing,
                 alerts, inlineCalls, loops, emailLog, attempts, pushCalls>>

\* A mutation of WindowAfterCreate: the window is marked before the outcome
\* of createAlert is known.
MarkBeforeCreate(ra, alertData, t, created) == MarkAlertInCache(ra, alertData, t)

\* The window map after the awaited createAlert: markAlertInCache is only
\* reached when createAlert resolved; a rejection jumps to the catch block.
WindowAfterCreate(ra, alertData, t, created) ==
  IF created THEN MarkAlertInCache(ra, alertData, t) ELSE ra

\* The queue after the awaited createAlert: every created alert is pushed.
QueueAfterCreate(q, id, created) ==
  IF created THEN Append(q, [alert |-> id, retries |-> 0]) ELSE q

\* The columns of the alerts table.
AlertColumns ==
  {"id", "user_id", "device_id", "tipo_alerta", "prioridade", "titulo", "descricao",
   "dados_extras", "lido", "email_enviado", "push_enviado", "data_hora", "created_at",
   "updated_at"}

\* A mutation of InsertAccepted: the insert takes any object as a new row.
InsertAnything(rows, alertData) == TRUE

\* BaseModel.create: `insert(data)` names every key of data as a column and
\* the primary key is unique.
InsertAccepted(rows, alertData) ==
  /\ DOMAIN alertData \subseteq AlertColumns
  /\ "id" \in DOMAIN alertData => alertData.id \notin 1..Len(rows)

\* addAlert from the settling of Alert.createAlert to the next await (the
\* inline processing of a critical alert) or to the return.
CreateAlert(i, created) ==
  /\ i \in 1..Len(creating)
  /\ created => Len(alerts) < MaxAlerts(workload) /\ InsertAccepted(alerts, creating[i])
  /\ ~created => workload = "burst" \/ ~InsertAccepted(alerts, creating[i])
  /\ LET d == creating[i]
         id == Len(alerts) + 1
     IN  /\ creating' = RemoveAt(creating, i)
         /\ processingQueue' = QueueAfterCreate(processingQueue, id, created)
         /\ recentAlerts' = WindowAfterCreate(recentAlerts, d, now, created)
         /\ IF created
            THEN /\ alerts' = Append(alerts, NewRow(d, now, TRUE))
                 /\ emailLog' = Append(emailLog, <<>>)
                 /\ attempts' = Append(attempts, 0)
                 /\ pushCalls' = Append(pushCalls, 0)
            ELSE UNCHANGED <<alerts, emailLog, attempts, pushCalls>>
         /\ IF ~created
            THEN /\ lastReturn' = "error"
                 /\ UNCHANGED inlineCalls
            ELSE IF d.prioridade = "critica"
            THEN /\ inlineCalls' = inlineCalls \cup {id}
                 /\ UNCHANGED lastReturn
            ELSE /\ lastReturn' = "ok"
                 /\ UNCHANGED inlineCalls
  /\ UNCHANGED <<detectorVars, sweep, stopping, workload, now, isProcessing, loops>>

\* processAlertImmediately, then the return of addAlert.  A missing user or
\* a failing lookup throws into the catch block: no courier is invoked.
ProcessAlertImmediately(id, lookup, emailOutcome, pushOutcome) ==
  /\ id \in inlineCalls
  /\ LET p == alerts[id].prioridade
         results == <<SendEmailNotification(p, emailOutcome),
                      SendPushNotification(p, pushOutcome)>>
     IN  IF lookup = "found"
         THEN /\ emailLog' = LogEmail(emailLog, id, p, emailOutcome)
              /\ pushCalls' = LogPush(pushCalls, id)
              /\ alerts' = UpdateAlertNotificationStatus(alerts, id, results, now)
         ELSE UNCHANGED <<emailLog, alerts, pushCalls>>
  /\ inlineCalls' = inlineCalls \ {id}
  /\ lastReturn' = "ok"
  /\ UNCHANGED <<detectorVars, sweep, stopping, workload, now, recentAlerts, processingQueue, isProcessing,
                 creating, loops, attempts>>

(* ---------------------------- worker loop ------------------------------ *)
\* A mutation of LoopContinues: the loop ends once the queue is drained.
LoopUntilDrained(running, q) == running /\ Len(q) > 0

\* while (this.isProcessing): whether the loop goes round once more.
LoopContinues(running, q) == running

\* A mutation of LoopAtHead: the loop takes the newest item (pop).
LoopAtTail(running, q) ==
  IF ~LoopContinues(running, q) THEN [pc |-> "none", item |-> NoItem, queue |-> q]
  ELSE IF Len(q) = 0 THEN [pc |-> "sleep", item |-> NoItem, queue |-> q]
  ELSE [pc |-> "deliver", item |-> q[Len(q)], queue |-> SubSeq(q, 1, Len(q) - 1)]

\* One evaluation of the loop head of processQueue, up to its next await:
\* leave the loop, sleep on an empty queue, or shift the head item and call
\* processAlert (which suspends in User.findById).
LoopAtHead(running, q) ==
  IF ~LoopContinues(running, q) THEN [pc |-> "none", item |-> NoItem, queue |-> q]
  ELSE IF Len(q) = 0 THEN [pc |-> "sleep", item |-> NoItem, queue |-> q]
  ELSE [pc |-> "deliver", item |-> Head(q), queue |-> Tail(q)]

EnterLoop(l, running, q) ==
  LET h == LoopAtHead(running, q)
  IN  /\ loops' = [loops EXCEPT ![l] = [pc |-> h.pc, item |-> h.item,
                                          threw |-> FALSE, missing |-> FALSE]]
      /\ processingQueue' = h.queue
      /\ attempts' = IF h.pc = "deliver"
                     THEN [attempts EXCEPT ![h.item.alert] = @ + 1]
                     ELSE attempts

FreeLoop(l) == loops[l].pc = "none" /\ \A k \in 1..(l - 1) : loops[k].pc # "none"

StartProcessing(l) ==
  /\ workload = "lifecycle"
  /\ ~isProcessing
  /\ FreeLoop(l)
  /\ isProcessing' = TRUE
  /\ EnterLoop(l, TRUE, processingQueue)
  /\ UNCHANGED <<detectorVars, sweep, stopping, workload, now, recentAlerts, alerts, creating, inlineCalls,
                 lastReturn, emailLog, pushCalls>>

StopProcessing ==
  /\ workload = "lifecycle"
  /\ isProcessing
  /\ isProcessing' = FALSE
  /\ UNCHANGED <<detectorVars, sweep, stopping, workload, now, recentAlerts, processingQueue, alerts, creating,
                 inlineCalls, lastReturn, loops, emailLog, attempts, pushCalls>>

\* The sleep timer fires: the loop is back at its head.
LoopWake(l) ==
  /\ loops[l].pc = "sleep"
  /\ loops' = [loops EXCEPT ![l].pc = "head"]
  /\ UNCHANGED <<detectorVars, sweep, stopping, workload, now, recentAlerts, processingQueue, isProcessing,
                 alerts, creating, inlineCalls, lastReturn, emailLog, attempts, pushCalls>>

LoopHead(l) ==
  /\ loops[l].pc = "head"
  /\ EnterLoop(l, isProcessing, processingQueue)
  /\ UNCHANGED <<detectorVars, sweep, stopping, workload, now, recentAlerts, isProcessing, alerts, creating,
                 inlineCalls, lastReturn, emailLog, pushCalls>>

\* A mutation of CatchRetry: the catch block never retries.
CatchDrops(retries) == FALSE

\* The catch block of processAlert: retry unless the limit is exceeded.
CatchRetry(retries) == retries < maxRetries

\* A mutation of RetryWithoutUser: an item whose user is missing is retried
\* like a failed delivery.
RetryMissingUser(retries) == retries < maxRetries

\* `if (!user) { ...; return; }`: processAlert returns, nothing is retried.
RetryWithoutUser(retries) == FALSE

Requeue(q, item) == Append(q, [item EXCEPT !.retries = @ + 1])

\* processAlert(alertItem) from the settling of User.findById to its return.
ProcessAlert(l, lookup, emailOutcome, pushOutcome) ==
  /\ loops[l].pc = "deliver"
  /\ workload = "inbox" => (lookup = "found" /\ emailOutcome = "ok")
  /\ workload \in {"critical", "lifecycle", "shutdown", "pending"} => lookup = "found"
  /\ LET item == loops[l].item
         id == item.alert
         p == alerts[id].prioridade
         results ==
           (IF ShouldSendEmail(p) THEN <<SendEmailNotification(p, emailOutcome)>>
            ELSE <<>>) \o
           (IF ShouldSendPush(p) THEN <<SendPushNotification(p, pushOutcome)>>
            ELSE <<>>)
     IN  CASE lookup = "null" ->
                /\ processingQueue' = IF RetryWithoutUser(item.retries)
                                      THEN Requeue(processingQueue, item)
                                      ELSE processingQueue
                /\ UNCHANGED <<alerts, emailLog, pushCalls>>
           [] lookup = "throw" ->
                /\ processingQueue' = IF CatchRetry(item.retries)
                                      THEN Requeue(processingQueue, item)
                                      ELSE processingQueue
                /\ UNCHANGED <<alerts, emailLog, pushCalls>>
           [] lookup = "found" ->
                /\ emailLog' = IF ShouldSendEmail(p)
                               THEN LogEmail(emailLog, id, p, emailOutcome)
                               ELSE emailLog
                /\ pushCalls' = IF ShouldSendPush(p)
                                THEN LogPush(pushCalls, id)
                                ELSE pushCalls
                /\ alerts' = UpdateAlertNotificationStatus(alerts, id, results, now)
                /\ processingQueue' =
                     IF ShouldRetry(CountFailures(results), item.retries)
                     THEN Requeue(processingQueue, item)
                     ELSE processingQueue
  /\ loops' = [loops EXCEPT ![l] = [pc |-> "head", item |-> NoItem,
                                     threw |-> (lookup = "throw"),
                                     missing |-> (lookup = "null")]]
  /\ UNCHANGED <<detectorVars, sweep, stopping, workload, now, recentAlerts, isProcessing, creating,
                 inlineCalls, lastReturn, attempts>>

(* ------------------------- cache housekeeping -------------------------- *)
\* A mutation of CleanedWindows: a key left without timestamps is kept.
CleanedKeepingKeys(ra, t) ==
  [k \in DOMAIN ra |-> FilterAfter(ra[k], t - HourMinutes)]

\* The window map after the sweep: keys left without a valid timestamp are
\* deleted, the others are set to their valid timestamps.
CleanedWindows(ra, t) ==
  [k \in {j \in DOMAIN ra : FilterAfter(ra[j], t - HourMinutes) # <<>>} |->
     FilterAfter(ra[k], t - HourMinutes)]

CleanupRecentAlerts ==
  /\ recentAlerts' = CleanedWindows(recentAlerts, now)
  /\ recentAlerts' # recentAlerts
  /\ UNCHANGED <<detectorVars, sweep, stopping, workload, now, processingQueue, isProcessing, alerts, creating,
                 inlineCalls, lastReturn, loops, emailLog, attempts, pushCalls>>

(* --------------------------- route detectors --------------------------- *)
\* routes/locations.js checkLocationAlerts: the speed detector inserts its
\* alert with Alert.createAlert.
SpeedAlert(u) ==
  [user_id |-> u, tipo_alerta |-> "localizacao_risco", prioridade |-> "alta"]

CheckLocationAlerts(u) ==
  /\ workload = "burst"
  /\ Len(alerts) < MaxAlerts(workload)
  /\ alerts' = Append(alerts, NewRow(SpeedAlert(u), now, FALSE))
  /\ emailLog' = Append(emailLog, <<>>)
  /\ attempts' = Append(attempts, 0)
  /\ pushCalls' = Append(pushCalls, 0)
  /\ UNCHANGED <<detectorVars, sweep, stopping, workload, now, recentAlerts, processingQueue, isProcessing,
                 creating, inlineCalls, lastReturn, loops>>

(* ----------------------------- alert routes ---------------------------- *)
\* routes/alerts.js PUT /mark-read and PUT /:alertId/read.
MarkAsRead(alertIds, userId) ==
  /\ workload = "inbox"
  /\ alertIds # {}
  /\ alerts' = MarkAsReadRows(alerts, alertIds, userId, now)
  /\ alerts' # alerts
  /\ UNCHANGED <<detectorVars, sweep, stopping, workload, now, recentAlerts, processingQueue, isProcessing,
                 creating, inlineCalls, lastReturn, loops, emailLog, attempts, pushCalls>>

(* -------------------------------- Next --------------------------------- *)
Booleans == {TRUE, FALSE}

Next ==
  \/ Tick
  \/ \E d \in AlertInputs(workload) : AddAlert(d)
  \/ \E i \in 1..Len(creating), created \in Booleans : CreateAlert(i, created)
  \/ \E id \in inlineCalls, lookup \in UserLookups, e \in CourierOutcomes : ProcessAlertImmediately(id, lookup, e, "ok")
  \/ \E l \in 1..MaxLoops : StartProcessing(l)
  \/ StopProcessing
  \/ \E l \in 1..MaxLoops : LoopWake(l)
  \/ \E l \in 1..MaxLoops : LoopHead(l)
  \/ \E l \in 1..MaxLoops, lookup \in UserLookups, e \in CourierOutcomes : ProcessAlert(l, lookup, e, "ok")
  \/ CleanupRecentAlerts
  \/ \E u \in Users : CheckLocationAlerts(u)
  \/ \E ids \in SUBSET AlertIds, u \in Users : MarkAsRead(ids, u)

Spec == Init /\ [][Next]_vars

\* One worker loop's steps.  The sleep timer fires and, as C6 assumes, every
\* lookup and courier call returns, so a loop that can step does step.
LoopStep(l) ==
  \/ LoopWake(l)
  \/ LoopHead(l)
  \/ \E lookup \in UserLookups, e \in CourierOutcomes : ProcessAlert(l, lookup, e, "ok")

LiveSpec == Init /\ [][Next]_vars /\ \A l \in 1..MaxLoops : WF_vars(LoopStep(l))

(* --------------------------- spaced alerts ----------------------------- *)
\* Time passes between the steps of addAlert calls that never overlap.
SpacedTick ==
  /\ workload \in ThrottledTypes
  /\ now + SpacedMinutes <= Epoch + MaxSpacedTicks * SpacedMinutes
  /\ now' = now + SpacedMinutes
  /\ UNCHANGED <<detectorVars, sweep, stopping, workload, recentAlerts, processingQueue,
                 isProcessing, alerts, creating, inlineCalls, lastReturn, loops, emailLog,
                 attempts, pushCalls>>

\* One (user, type) key of a configured type, its addAlert calls made one
\* after the other.
ThrottleInit ==
  /\ \E w \in ThrottledTypes : PipelineStart(w)
  /\ sms = SmsIdle
  /\ locations = NoLocations("home")
  /\ phone = PhoneIdle
  /\ status = NoStatus
  /\ access = NoAccess

ThrottleNext ==
  \/ SpacedTick
  \/ \E d \in AlertInputs(workload) : AddAlert(d)
  \/ \E i \in 1..Len(creating) : CreateAlert(i, TRUE)

ThrottleSpec == ThrottleInit /\ [][ThrottleNext]_vars

(* --------------------------- pending sweep ----------------------------- *)
\* The order of the enum `prioridade` in the alerts table.
PriorityRank(prioridade) ==
  CASE prioridade = "baixa" -> 1
    [] prioridade = "media" -> 2
    [] prioridade = "alta" -> 3
    [] prioridade = "critica" -> 4

\* The rows findAlertsForNotification selects.
PendingIds(rows, t) ==
  {id \in 1..Len(rows) : /\ ~rows[id].email_enviado
                         /\ rows[id].prioridade \in {"alta", "critica"}
                         /\ rows[id].data_hora >= t - HourMinutes}

\* Its answers: the selected rows by priority, then by date, both
\* descending; rows that tie come in any order.
FindAlertsForNotification(rows, t) ==
  LET ids == PendingIds(rows, t)
      n == Cardinality(ids)
      Before(a, b) ==
        \/ PriorityRank(rows[a].prioridade) > PriorityRank(rows[b].prioridade)
        \/ /\ rows[a].prioridade = rows[b].prioridade
           /\ rows[a].data_hora >= rows[b].data_hora
  IN  {s \in [1..n -> ids] :
         /\ \A i, j \in 1..n : i # j => s[i] # s[j]
         /\ \A i, j \in 1..n : i < j => Before(s[i], s[j])}

\* What the sweep hands to addAlert: the row with its id and the two
\* columns joined from users.
SweptRow(rows, id) ==
  [id |-> id, user_id |-> rows[id].user_id, tipo_alerta |-> rows[id].tipo_alerta,
   prioridade |-> rows[id].prioridade, email |-> "email", user_name |-> "nome"]

\* Whether an addAlert call of the sweep is suspended in createAlert.
SweepCalling == \E i \in 1..Len(creating) : "email" \in DOMAIN creating[i]

\* processPendingAlerts up to the answer of findAlertsForNotification.
ProcessPendingAlerts ==
  /\ workload = "pending"
  /\ sweep.pc = "idle"
  /\ \E pendingAlerts \in FindAlertsForNotification(alerts, now) :
       sweep' = [pc |-> "running", found |-> pendingAlerts, rest |-> pendingAlerts,
                 attempted |-> attempts]
  /\ UNCHANGED <<detectorVars, stopping, workload, now, recentAlerts, processingQueue,
                 isProcessing, alerts, creating, inlineCalls, lastReturn, loops, emailLog,
                 attempts, pushCalls>>

\* `await this.addAlert(alert)` for the next pending alert, up to the first
\* await of addAlert.
SweepAddAlert ==
  /\ sweep.pc = "running"
  /\ sweep.rest # <<>>
  /\ ~SweepCalling
  /\ LET alertData == SweptRow(alerts, Head(sweep.rest))
     IN  /\ recentAlerts' = WindowAfterCheck(recentAlerts, alertData, now)
         /\ IF ShouldThrottle(recentAlerts, alertData, now)
            THEN /\ lastReturn' = "throttled"
                 /\ UNCHANGED creating
            ELSE /\ creating' = Append(creating, alertData)
                 /\ UNCHANGED lastReturn
  /\ sweep' = [sweep EXCEPT !.rest = Tail(@)]
  /\ UNCHANGED <<detectorVars, stopping, workload, now, processingQueue, isProcessing,
                 alerts, inlineCalls, loops, emailLog, attempts, pushCalls>>

\* The loop of processPendingAlerts is through.
SweepReturn ==
  /\ sweep.pc = "running"
  /\ sweep.rest = <<>>
  /\ ~SweepCalling
  /\ sweep' = [sweep EXCEPT !.pc = "done"]
  /\ UNCHANGED <<detectorVars, stopping, workload, now, recentAlerts, processingQueue,
                 isProcessing, alerts, creating, inlineCalls, lastReturn, loops, emailLog,
                 attempts, pushCalls>>

\* A running processor whose alerts of priority 'alta' are swept once.
SweepInit ==
  /\ PipelineStart("pending")
  /\ sms = SmsIdle
  /\ locations = NoLocations("home")
  /\ phone = PhoneIdle
  /\ status = NoStatus
  /\ access = NoAccess

SweepNext ==
  \/ \E d \in AlertInputs(workload) : AddAlert(d)
  \/ \E i \in 1..Len(creating), created \in Booleans : CreateAlert(i, created)
  \/ LoopWake(1)
  \/ LoopHead(1)
  \/ \E e \in CourierOutcomes : ProcessAlert(1, "found", e, "ok")
  \/ ProcessPendingAlerts
  \/ SweepAddAlert
  \/ SweepReturn

SweepSpec == SweepInit /\ [][SweepNext]_vars

(* ------------------------------ shutdown ------------------------------- *)
\* `attempts < 30`: the most one-second waits shutdown() makes.
MaxShutdownWaits == 30

\* A mutation of StillWaiting: shutdown() waits until the queue is empty.
WaitsUntilDrained(q, waits) == Len(q) > 0

\* The test of shutdown()'s while loop (its counter is called `attempts`).
StillWaiting(q, waits) == Len(q) > 0 /\ waits < MaxShutdownWaits

\* shutdown() up to its first await: stopProcessing(), then the first test
\* of the loop.  The record keeps the queue and the attempt counters the
\* call found.
Shutdown ==
  /\ workload = "shutdown"
  /\ stopping.pc = "idle"
  /\ isProcessing' = FALSE
  /\ stopping' = [pc |-> IF StillWaiting(processingQueue, 0) THEN "waiting" ELSE "done",
                  waits |-> 0,
                  found |-> processingQueue,
                  attempted |-> attempts]
  /\ UNCHANGED <<detectorVars, sweep, workload, now, recentAlerts, processingQueue, alerts,
                 creating, inlineCalls, lastReturn, loops, emailLog, attempts, pushCalls>>

\* One sleep(1000) of shutdown() ends: attempts++ and the next test.
ShutdownWake ==
  /\ stopping.pc = "waiting"
  /\ LET waits == stopping.waits + 1
     IN  stopping' = [stopping EXCEPT
                        !.waits = waits,
                        !.pc = IF StillWaiting(processingQueue, waits)
                               THEN "waiting" ELSE "done"]
  /\ UNCHANGED <<detectorVars, sweep, workload, now, recentAlerts, processingQueue, isProcessing,
                 alerts, creating, inlineCalls, lastReturn, loops, emailLog, attempts,
                 pushCalls>>

\* A running processor that is shut down while alerts keep arriving.
ShutdownInit ==
  /\ PipelineStart("shutdown")
  /\ sms = SmsIdle
  /\ locations = NoLocations("home")
  /\ phone = PhoneIdle
  /\ status = NoStatus
  /\ access = NoAccess

ShutdownNext ==
  \/ \E d \in AlertInputs(workload) : AddAlert(d)
  \/ \E i \in 1..Len(creating) : CreateAlert(i, TRUE)
  \/ LoopWake(1)
  \/ LoopHead(1)
  \/ \E e \in CourierOutcomes : ProcessAlert(1, "found", e, "ok")
  \/ Shutdown
  \/ ShutdownWake

\* The timer of sleep(1000) fires.
ShutdownSpec == ShutdownInit /\ [][ShutdownNext]_vars /\ WF_vars(ShutdownWake)

(* ======================= device: message scoring ======================= *)
\* Text is a sequence of characters, each a one-character string.
MaxFragments == 2

HIGH_RISK_THRESHOLD == 70
MEDIUM_RISK_THRESHOLD == 40
LongMessageLength == 500

HIGH_RISK_KEYWORDS ==
  << <<"d", "r", "o", "g", "a", "s">>,
     <<"m", "a", "c", "o", "n", "h", "a">>,
     <<"c", "o", "c", "a", "i", "n", "a">>,
     <<"c", "r", "a", "c", "k">>,
     <<"e", "c", "s", "t", "a", "s", "y">>,
     <<"l", "s", "d">>,
     <<"s", "u", "i", "c", "i", "d", "i", "o">>,
     <<"s", "u", "i", "c", "i", "d", "a", "r">>,
     <<"m", "o", "r", "t", "e">>,
     <<"m", "o", "r", "r", "e", "r">>,
     <<"m", "a", "t", "a", "r">>,
     <<"s", "e", "x", "o">>,
     <<"t", "r", "a", "n", "s", "a", "r">>,
     <<"v", "i", "r", "g", "i", "n", "d", "a", "d", "e">>,
     <<"n", "u", "d", "e", "s">>,
     <<"p", "e", "l", "a", "d", "a">>,
     <<"p", "e", "l", "a", "d", "o">>,
     <<"f", "u", "g", "i", "r">>,
     <<"s", "a", "i", "r", " ", "d", "e", " ", "c", "a", "s", "a">>,
     <<"n", "ã", "o", " ", "v", "o", "l", "t", "o">>,
     <<"v", "o", "u", " ", "e", "m", "b", "o", "r", "a">>,
     <<"b", "u", "l", "l", "y", "i", "n", "g">>,
     <<"b", "a", "t", "e", "r">>,
     <<"m", "a", "c", "h", "u", "c", "a", "r">>,
     <<"v", "i", "o", "l", "e", "n", "c", "i", "a">>,
     <<"a", "m", "e", "a", "ç", "a">> >>

MEDIUM_RISK_KEYWORDS ==
  << <<"b", "e", "b", "i", "d", "a">>,
     <<"c", "e", "r", "v", "e", "j", "a">>,
     <<"v", "o", "d", "k", "a">>,
     <<"w", "h", "i", "s", "k", "y">>,
     <<"a", "l", "c", "o", "o", "l">>,
     <<"b", "e", "b", "e", "r">>,
     <<"c", "i", "g", "a", "r", "r", "o">>,
     <<"f", "u", "m", "a", "r">>,
     <<"v", "a", "p", "e">>,
     <<"t", "a", "b", "a", "c", "o">>,
     <<"f", "e", "s", "t", "a">>,
     <<"b", "a", "l", "a", "d", "a">>,
     <<"r", "a", "v", "e">>,
     <<"s", "h", "o", "w">>,
     <<"e", "v", "e", "n", "t", "o">>,
     <<"d", "i", "n", "h", "e", "i", "r", "o">>,
     <<"e", "m", "p", "r", "e", "s", "t", "i", "m", "o">>,
     <<"d", "i", "v", "i", "d", "a">>,
     <<"c", "o", "m", "p", "r", "a", "r">>,
     <<"v", "e", "n", "d", "e", "r">>,
     <<"e", "s", "c", "o", "l", "a">>,
     <<"f", "a", "l", "t", "a", "r">>,
     <<"m", "a", "t", "a", "r", " ", "a", "u", "l", "a">>,
     <<"c", "a", "b", "u", "l", "a", "r">>,
     <<"n", "o", "t", "a", "s">>,
     <<"p", "a", "i", "s">>,
     <<"f", "a", "m", "i", "l", "i", "a">>,
     <<"b", "r", "i", "g", "a", "r">>,
     <<"d", "i", "s", "c", "u", "s", "s", "a", "o">>,
     <<"p", "r", "o", "b", "l", "e", "m", "a">> >>

LOW_RISK_KEYWORDS ==
  << <<"n", "a", "m", "o", "r", "a", "d", "o">>,
     <<"n", "a", "m", "o", "r", "a", "d", "a">>,
     <<"c", "r", "u", "s", "h">>,
     <<"p", "a", "q", "u", "e", "r", "a">>,
     <<"e", "n", "c", "o", "n", "t", "r", "o">>,
     <<"s", "h", "o", "p", "p", "i", "n", "g">>,
     <<"c", "i", "n", "e", "m", "a">>,
     <<"p", "r", "a", "i", "a">>,
     <<"p", "a", "r", "q", "u", "e">>,
     <<"d", "i", "v", "e", "r", "s", "a", "o">>,
     <<"j", "o", "g", "o">>,
     <<"g", "a", "m", "e">>,
     <<"y", "o", "u", "t", "u", "b", "e">>,
     <<"t", "i", "k", "t", "o", "k">>,
     <<"i", "n", "s", "t", "a", "g", "r", "a", "m">>,
     <<"m", "u", "s", "i", "c", "a">>,
     <<"f", "i", "l", "m", "e">>,
     <<"s", "e", "r", "i", "e">>,
     <<"l", "i", "v", "r", "o">>,
     <<"e", "s", "t", "u", "d", "o">> >>

urgencyPatterns ==
  << <<"u", "r", "g", "e", "n", "t", "e">>,
     <<"r", "a", "p", "i", "d", "o">>,
     <<"a", "g", "o", "r", "a">>,
     <<"i", "m", "e", "d", "i", "a", "t", "o">>,
     <<"s", "o", "c", "o", "r", "r", "o">>,
     <<"a", "j", "u", "d", "a">> >>

UpperCaseLetters == <<"A", "B", "C", "D", "E", "F", "G", "H", "I", "J", "K", "L", "M", "N", "O", "P", "Q", "R", "S", "T", "U", "V", "W", "X", "Y", "Z">>
LowerCaseLetters == <<"a", "b", "c", "d", "e", "f", "g", "h", "i", "j", "k", "l", "m", "n", "o", "p", "q", "r", "s", "t", "u", "v", "w", "x", "y", "z">>
Digits == {"0", "1", "2", "3", "4", "5", "6", "7", "8", "9"}

UpperCaseSet == {UpperCaseLetters[i] : i \in 1..Len(UpperCaseLetters)}

IsUpperCase(ch) == ch \in UpperCaseSet

LowerTable ==
  [ch \in UpperCaseSet |->
     LowerCaseLetters[CHOOSE i \in 1..Len(UpperCaseLetters) : UpperCaseLetters[i] = ch]]

\* String.lowercase()
LowerOf(ch) == IF IsUpperCase(ch) THEN LowerTable[ch] ELSE ch

Lowercase(text) == [i \in 1..Len(text) |-> LowerOf(text[i])]

\* String.contains(other): other occurs as a substring.
Contains(text, other) ==
  \/ other = <<>>
  \/ \E i \in 0..(Len(text) - Len(other)) :
       /\ text[i + 1] = other[1]
       /\ SubSeq(text, i + 1, i + Len(other)) = other

\* Regex.matches(input) holds when the whole input matches, so "^\\d{5}$"
\* and "^\\d{4}$" accept the all-digit numbers of that length and "^0800",
\* "^4004", "^3003" accept only those four characters.
MatchesDigits(phoneNumber, n) ==
  Len(phoneNumber) = n /\ \A i \in 1..n : phoneNumber[i] \in Digits

SPAM_PATTERNS(phoneNumber) ==
  << MatchesDigits(phoneNumber, 5), MatchesDigits(phoneNumber, 4),
     phoneNumber = <<"0", "8", "0", "0">>, phoneNumber = <<"4", "0", "0", "4">>,
     phoneNumber = <<"3", "0", "0", "3">> >>

IsSpamNumber(phoneNumber) ==
  \E i \in 1..Len(SPAM_PATTERNS(phoneNumber)) : SPAM_PATTERNS(phoneNumber)[i]

RECURSIVE KeywordScore(_, _, _)
\* keywords.forEach { if (contentLower.contains(it)) riskScore += points }
KeywordScore(contentLower, keywords, points) ==
  IF keywords = <<>> THEN 0
  ELSE (IF Contains(contentLower, Head(keywords)) THEN points ELSE 0)
       + KeywordScore(contentLower, Tail(keywords), points)

\* content.count { it.isUpperCase() }
CountUpperCase(text) == Cardinality({i \in 1..Len(text) : IsUpperCase(text[i])})

\* A mutation of Capped: the score is returned as accumulated.
Uncapped(riskScore) == riskScore

\* min(riskScore, 100)
Capped(riskScore) == IF riskScore < 100 THEN riskScore ELSE 100

\* calculateRiskScore(content, phoneNumber); contactKnown tells whether
\* getContactName finds the number among the contacts.
CalculateRiskScore(content, phoneNumber, contactKnown) ==
  LET contentLower == Lowercase(content)
  IN  Capped(
          KeywordScore(contentLower, HIGH_RISK_KEYWORDS, 25)
        + KeywordScore(contentLower, MEDIUM_RISK_KEYWORDS, 15)
        + KeywordScore(contentLower, LOW_RISK_KEYWORDS, 5)
        + (IF IsSpamNumber(phoneNumber) THEN 20 ELSE 0)
        + (IF ~contactKnown THEN 10 ELSE 0)
        + (IF Len(content) > LongMessageLength THEN 5 ELSE 0)
        + (IF Contains(contentLower, <<"h", "t", "t", "p">>)
              \/ Contains(contentLower, <<"w", "w", "w">>) THEN 10 ELSE 0)
        + (IF 2 * CountUpperCase(content) > Len(content) THEN 5 ELSE 0)
        + KeywordScore(contentLower, urgencyPatterns, 8))

\* detectKeywords(content): the matched keywords, tier by tier.
DetectKeywords(content) ==
  LET contentLower == Lowercase(content)
  IN  SelectSeq(HIGH_RISK_KEYWORDS \o MEDIUM_RISK_KEYWORDS \o LOW_RISK_KEYWORDS,
                LAMBDA keyword : Contains(contentLower, keyword))

\* processAndSyncMessage: which alert the thresholds select.
MessageAlert(riskScore) ==
  IF riskScore >= HIGH_RISK_THRESHOLD THEN "HIGH_RISK_MESSAGE"
  ELSE IF riskScore >= MEDIUM_RISK_THRESHOLD THEN "MEDIUM_RISK_MESSAGE"
  ELSE "none"

\* The texts the runs send: up to MaxFragments fragments in a row, the
\* shorter of them also with the filler after them, and the message of the
\* keyword example.
Filler == [i \in 1..(LongMessageLength + 1) |-> "x"]

Fragments ==
  { <<"m", "a", "c", "o", "n", "h", "a", " ", "f", "e", "s", "t", "a", " ", "c", "i", "n", "e", "m", "a", " ">>,
    <<"d", "r", "o", "g", "a", "s", " ", "s", "e", "x", "o", " ", "m", "a", "t", "a", "r", " ", "m", "o", "r", "r", "e", "r", " ">>,
    <<"U", "R", "G", "E", "N", "T", "E", " ", "W", "W", "W", ".", "X", ".", "C", "O", " ">> }

RECURSIVE Texts(_)
Texts(n) ==
  IF n = 0 THEN {<<>>}
  ELSE Texts(n - 1) \cup {t \o f : t \in Texts(n - 1), f \in Fragments}

SmokeMessage == <<"l", "e", "t", "'", "s", " ", "m", "e", "e", "t", " ", "a", "n", "d", " ", "s", "m", "o", "k", "e", " ", "m", "a", "c", "o", "n", "h", "a", " ", "t", "o", "n", "i", "g", "h", "t">>

Contents ==
  Texts(MaxFragments) \cup {t \o Filler : t \in Texts(MaxFragments - 1)} \cup {SmokeMessage}

PhoneNumbers == {<<"1", "1", "9", "8", "7", "6", "5", "4", "3", "2", "1">>, <<"1", "2", "3", "4", "5">>, <<"0", "8", "0", "0", "1", "2", "3", "4", "5", "6", "7">>}

StartSmsMonitoring(hasSmsPermission) ==
  /\ hasSmsPermission
  /\ ~sms.isMonitoring
  /\ sms' = [sms EXCEPT !.isMonitoring = TRUE]
  /\ UNCHANGED exceptSms

StopSmsMonitoring ==
  /\ sms.isMonitoring
  /\ sms' = [sms EXCEPT !.isMonitoring = FALSE]
  /\ UNCHANGED exceptSms

\* The MessageData of every message the runs send, computed once.
MessageDataOf ==
  [phoneNumber \in PhoneNumbers, content \in Contents, contactKnown \in Booleans |->
     [phoneNumber |-> phoneNumber,
      contactKnown |-> contactKnown,
      content |-> content,
      detectedKeywords |-> DetectKeywords(content),
      riskScore |-> CalculateRiskScore(content, phoneNumber, contactKnown)]]

\* processNewMessage: build the MessageData, then processAndSyncMessage.
ProcessNewMessage(phoneNumber, content, contactKnown) ==
  /\ sms.isMonitoring
  /\ LET messageData == MessageDataOf[phoneNumber, content, contactKnown]
     IN  sms' = [sms EXCEPT !.last = messageData,
                            !.alert = MessageAlert(messageData.riskScore)]
  /\ UNCHANGED exceptSms

MessageInit == Init /\ workload = "burst"

MessageNext ==
  \/ \E hasSmsPermission \in Booleans : StartSmsMonitoring(hasSmsPermission)
  \/ StopSmsMonitoring
  \/ \E phoneNumber \in PhoneNumbers, content \in Contents, contactKnown \in Booleans :
       ProcessNewMessage(phoneNumber, content, contactKnown)

MessageSpec == MessageInit /\ [][MessageNext]_vars

(* ====================== server: location detector ====================== *)
\* A position is a point of the meridian through the centre of the first
\* dangerous zone, in metres of arc north of that centre; data_hora and the
\* server clock are hours since 00:00 of day 0, a Monday.
MaxHistory == 20

DayHours == 24
WindowDays == 30
SchoolWindowDays == 7
HistoryLimit == 200
SchoolLimit == 100
MinLocations == 10
clusterRadius == 200
MinHomeCount == 5
FarFromHome == 10000
SpeedLimitKmh == 80
radiusKm == 500
MinSchoolLocations == 5
FarFromSchool == 2000

\* Location.calculateDistance: the haversine distance of two points of one
\* meridian is the arc between them.
CalculateDistance(a, b) == IF a >= b THEN a - b ELSE b - a

\* Date.getHours and Date.getDay (0 is Sunday).
GetHours(t) == t % DayHours

GetDay(t) == ((t \div DayHours) + 1) % 7

Reversed(s) == [i \in 1..Len(s) |-> s[Len(s) + 1 - i]]

RECURSIVE Since(_, _)
Since(rows, start_date) ==
  IF rows = <<>> THEN <<>>
  ELSE IF Head(rows).data_hora >= start_date
       THEN <<Head(rows)>> \o Since(Tail(rows), start_date)
       ELSE Since(Tail(rows), start_date)

\* Location.findByDeviceId: the device's rows from start_date on, newest
\* first, at most `limit` of them.  The rows are stored in the order of
\* their data_hora, so the newest-first order is the reverse.
FindByDeviceId(rows, limit, start_date) ==
  LET found == Reversed(Since(rows, start_date))
  IN  SubSeq(found, 1, IF Len(found) < limit THEN Len(found) ELSE limit)

\* The first cluster whose centre is within the radius, 0 if there is none.
FirstNear(clusters, pos, radius) ==
  LET near == {i \in 1..Len(clusters) : CalculateDistance(pos, clusters[i].center) <= radius}
  IN  IF near = {} THEN 0 ELSE CHOOSE i \in near : \A j \in near : i <= j

\* The clustering loop of checkDistanceFromHome and findMostCommonLocation:
\* a location joins the first cluster whose centre is near, or founds one.
RECURSIVE Clusters(_, _, _)
Clusters(locs, clusters, radius) ==
  IF locs = <<>> THEN clusters
  ELSE LET i == FirstNear(clusters, Head(locs).pos, radius)
       IN  Clusters(Tail(locs),
                    IF i = 0
                    THEN Append(clusters, [center |-> Head(locs).pos, count |-> 1])
                    ELSE [clusters EXCEPT ![i].count = @ + 1],
                    radius)

\* The reduce's start value {count: 0}.
NoCluster == [count |-> 0]

\* clusters.reduce((max, cluster) => cluster.count > max.count ? cluster : max)
RECURSIVE MostCommon(_, _)
MostCommon(clusters, max) ==
  IF clusters = <<>> THEN max
  ELSE MostCommon(Tail(clusters), IF Head(clusters).count > max.count THEN Head(clusters) ELSE max)

\* Mutant: the first cluster, which the newest location founded.
NewestCluster(clusters) ==
  IF clusters = <<>> THEN NoCluster ELSE Head(clusters)

\* checkDistanceFromHome's homeCluster: the cluster with the most locations.
PopulousCluster(clusters) == MostCommon(clusters, NoCluster)

LocationAlert(prioridade, alert_type) ==
  [tipo_alerta |-> "localizacao_risco", prioridade |-> prioridade, alert_type |-> alert_type]

\* currentHour >= 22 || currentHour <= 6
IsLateHour(currentHour) == currentHour >= 22 \/ currentHour <= 6

\* 1. Alert.createLocationAlert(..., 'fora_horario') whenever the hour is late.
OutOfHours(location) ==
  IF IsLateHour(GetHours(location.data_hora)) THEN <<LocationAlert("media", "fora_horario")>> ELSE <<>>

\* 2. speed (m/s) * 3.6 > 80, in tenths of km/h.
HighSpeed(location) ==
  IF location.speed * 36 > SpeedLimitKmh * 10 THEN <<LocationAlert("alta", "high_speed")>> ELSE <<>>

\* The home of checkDistanceFromHome: the most populous cluster of the last
\* 30 days' locations, NoCluster when fewer than 10 locations are found.
HomeCluster(rows, t) ==
  LET recentLocations == FindByDeviceId(rows, HistoryLimit, t - WindowDays * DayHours)
  IN  IF Len(recentLocations) < MinLocations THEN NoCluster
      ELSE PopulousCluster(Clusters(recentLocations, <<>>, clusterRadius))

\* 3. checkDistanceFromHome.
CheckDistanceFromHome(location, rows, t) ==
  LET homeCluster == HomeCluster(rows, t)
  IN  IF homeCluster.count < MinHomeCount THEN <<>>
      ELSE IF CalculateDistance(location.pos, homeCluster.center) > FarFromHome
           THEN <<LocationAlert("media", "far_from_home")>>
           ELSE <<>>

\* The two predefined zones: the first is centred on the meridian, the second
\* lies 3394 m north and 1357 m east of the first.
dangerousZones ==
  << [north |-> 0, east |-> 0, radius |-> 2000, risk_level |-> "alto"],
     [north |-> 3394, east |-> 1357, radius |-> 1500, risk_level |-> "medio"] >>

InZone(pos, zone) ==
  (pos - zone.north) * (pos - zone.north) + zone.east * zone.east <= zone.radius * zone.radius

\* 4. checkDangerousZones: one alert, for the first zone that holds the fix.
CheckDangerousZones(location) ==
  LET hit == {i \in 1..Len(dangerousZones) : InZone(location.pos, dangerousZones[i])}
  IN  IF hit = {} THEN <<>>
      ELSE LET zone == dangerousZones[CHOOSE i \in hit : \A j \in hit : i <= j]
           IN  <<LocationAlert(IF zone.risk_level = "alto" THEN "critica"
                               ELSE IF zone.risk_level = "medio" THEN "alta" ELSE "media",
                               "dangerous_zone")>>

IsSchoolTime(t) ==
  /\ GetDay(t) >= 1 /\ GetDay(t) <= 5
  /\ GetHours(t) >= 7 /\ GetHours(t) <= 17

RECURSIVE SchoolTimeOnly(_)
SchoolTimeOnly(locs) ==
  IF locs = <<>> THEN <<>>
  ELSE IF IsSchoolTime(Head(locs).data_hora)
       THEN <<Head(locs)>> \o SchoolTimeOnly(Tail(locs))
       ELSE SchoolTimeOnly(Tail(locs))

FindMostCommonLocation(locs) == MostCommon(Clusters(locs, <<>>, radiusKm), NoCluster)

\* 5. checkSchoolHours.
CheckSchoolHours(location, rows, t) ==
  IF ~IsSchoolTime(location.data_hora) THEN <<>>
  ELSE LET schoolTimeLocations ==
             SchoolTimeOnly(FindByDeviceId(rows, SchoolLimit, t - SchoolWindowDays * DayHours))
       IN  IF Len(schoolTimeLocations) < MinSchoolLocations THEN <<>>
           ELSE IF CalculateDistance(location.pos, FindMostCommonLocation(schoolTimeLocations).center) > FarFromSchool
                THEN <<LocationAlert("media", "out_of_school")>>
                ELSE <<>>

\* checkLocationAlerts, for a device that authenticateDevice found: its
\* child_id is a non-null foreign key, so both lookups return a row.  `rows`
\* already holds the location: the route stores it before it checks.
LocationAlerts(location, rows, t) ==
  OutOfHours(location) \o HighSpeed(location) \o CheckDistanceFromHome(location, rows, t)
    \o CheckDangerousZones(location) \o CheckSchoolHours(location, rows, t)

\* What the device reports.
Home == 20000
Routines == {"home", "sparse", "roaming"}

\* The fix a routine reports when n fixes are stored: <<hours since the last
\* fix, position, speed>>.  "home": twice a day, at two spots 150 m apart;
\* "sparse": at home every fourth day; "roaming": twice a day, each fix a
\* kilometre further.
RoutineFix(routine, n) ==
  IF routine = "home" THEN <<12, Home + 150 * ((n + 1) % 2), 0>>
  ELSE IF routine = "sparse" THEN <<96, Home, 0>>
  ELSE <<12, Home + 1000 * n, 0>>

ProbeGaps == {1, 3, 10, 12}
ProbePositions == {Home, Home + 250, Home + 10000, Home + 15150, 5000, 1000, 3400}
ProbeSpeeds == {0, 25}

\* POST /api/locations: Location.createLocation, then checkLocationAlerts.
\* The first MaxHistory fixes follow the routine, the next one is any fix.
PostLocation(gap, pos, speed) ==
  /\ Len(locations.rows) <= MaxHistory
  /\ Len(locations.rows) < MaxHistory => <<gap, pos, speed>> = RoutineFix(locations.routine, Len(locations.rows))
  /\ LET t == locations.clock + gap
         location == [pos |-> pos, speed |-> speed, data_hora |-> t]
         rows == Append(locations.rows, location)
     IN  locations' = [locations EXCEPT !.clock = t, !.rows = rows,
                                        !.raised = LocationAlerts(location, rows, t)]
  /\ UNCHANGED exceptLocations

LocationInit ==
  /\ PipelineInit
  /\ workload = "burst"
  /\ sms = SmsIdle
  /\ locations \in {NoLocations(routine) : routine \in Routines}
  /\ phone = PhoneIdle
  /\ status = NoStatus
  /\ access = NoAccess

LocationNext ==
  \E gap \in ProbeGaps \cup {96}, pos \in ProbePositions \cup {Home + 150 * k : k \in 0..1} \cup {Home + 1000 * n : n \in 0..MaxHistory},
     speed \in ProbeSpeeds :
       PostLocation(gap, pos, speed)

LocationSpec == LocationInit /\ [][LocationNext]_vars

(* ===================== device and server: call detectors =============== *)
SUSPICIOUS_DURATION_THRESHOLD == 3600
MAX_CALLS_PER_BATCH == 50

SUSPICIOUS_KEYWORDS ==
  << <<"d", "e", "s", "c", "o", "n", "h", "e", "c", "i", "d", "o">>,
     <<"p", "r", "i", "v", "a", "d", "o">>,
     <<"b", "l", "o", "q", "u", "e", "a", "d", "o">>,
     <<"s", "p", "a", "m">>,
     <<"t", "e", "l", "e", "m", "a", "r", "k", "e", "t", "i", "n", "g">>,
     <<"c", "o", "b", "r", "a", "n", "ç", "a">>,
     <<"g", "o", "l", "p", "e">> >>

\* isBlockedNumber's own terms, before SUSPICIOUS_KEYWORDS.
BlockedTerms == << <<"p", "r", "i", "v", "a", "t", "e">>, <<"u", "n", "k", "n", "o", "w", "n">>, <<"b", "l", "o", "c", "k", "e", "d">> >>

\* CallManager.isBlockedNumber.
IsBlockedNumber(phoneNumber) ==
  LET number == Lowercase(phoneNumber)
  IN  \/ \E k \in 1..Len(BlockedTerms) : Contains(number, BlockedTerms[k])
      \/ Len(number) < 8
      \/ \E k \in 1..Len(SUSPICIOUS_KEYWORDS) : Contains(number, SUSPICIOUS_KEYWORDS[k])

\* Calendar.get(HOUR_OF_DAY) of a timestamp in hours.
HourOfDay(timestamp) == timestamp % DayHours

\* calls.groupBy { it.phoneNumber }: the numbers in the order of their first
\* call, and each number's calls in the order of the list.
RECURSIVE KeysOf(_, _)
KeysOf(list, seen) ==
  IF list = <<>> THEN seen
  ELSE KeysOf(Tail(list),
              IF \E k \in 1..Len(seen) : seen[k] = Head(list).phoneNumber
              THEN seen ELSE Append(seen, Head(list).phoneNumber))

SuspiciousPattern(type, riskLevel, relatedCalls) ==
  [type |-> type, riskLevel |-> riskLevel, relatedCalls |-> relatedCalls]

\* The body of callsByNumber.forEach for one number.
PatternsOfNumber(callsForNumber) ==
  LET longCalls == SelectSeq(callsForNumber, LAMBDA c : c.duration > SUSPICIOUS_DURATION_THRESHOLD)
      suspiciousHours == SelectSeq(callsForNumber,
                                LAMBDA c : HourOfDay(c.timestamp) < 6 \/ HourOfDay(c.timestamp) > 22)
  IN  (IF Len(callsForNumber) > 10
       THEN <<SuspiciousPattern("EXCESSIVE_CALLS",
                                IF Len(callsForNumber) > 20 THEN "HIGH" ELSE "MEDIUM",
                                callsForNumber)>>
       ELSE <<>>)
      \o (IF longCalls # <<>> THEN <<SuspiciousPattern("LONG_DURATION", "MEDIUM", longCalls)>> ELSE <<>>)
      \o (IF suspiciousHours # <<>>
          THEN <<SuspiciousPattern("SUSPICIOUS_HOURS", "LOW", suspiciousHours)>> ELSE <<>>)

RECURSIVE PatternsByNumber(_, _)
PatternsByNumber(list, numbers) ==
  IF numbers = <<>> THEN <<>>
  ELSE PatternsOfNumber(SelectSeq(list, LAMBDA c : c.phoneNumber = Head(numbers)))
         \o PatternsByNumber(list, Tail(numbers))

\* CallManager.detectSuspiciousPatterns.
DetectSuspiciousPatterns(list) ==
  LET unknownCalls == SelectSeq(list, LAMBDA c : c.isBlocked \/ c.contactName = "null")
  IN  PatternsByNumber(list, KeysOf(list, <<>>))
      \o (IF Len(unknownCalls) > 5
          THEN <<SuspiciousPattern("UNKNOWN_NUMBERS",
                                   IF Len(unknownCalls) > 15 THEN "HIGH" ELSE "MEDIUM",
                                   unknownCalls)>>
          ELSE <<>>)

\* The numbers that call: a contact, a number that is no contact, a short
\* service number, and a withheld number.
Mother == <<"1", "1", "9", "8", "7", "6", "5", "4", "3", "2", "1">>
Stranger == <<"1", "1", "9", "1", "2", "3", "4", "5", "6", "7", "8">>
ShortNumber == <<"1", "9", "0">>
Withheld == <<"U", "n", "k", "n", "o", "w", "n">>

Contacts == {Mother}

\* getContactName.
GetContactName(phoneNumber) == IF phoneNumber \in Contacts THEN "Mae" ELSE "null"

CallData(phoneNumber, duration, timestamp) ==
  [phoneNumber |-> phoneNumber, contactName |-> GetContactName(phoneNumber),
   duration |-> duration, timestamp |-> timestamp,
   isBlocked |-> IsBlockedNumber(phoneNumber)]

Repeat(call, n) == [i \in 1..n |-> call]

\* The last 24 hours of the device's call log that getAllCallLogs returns:
\* one call, then short midday calls of the contact and of the stranger.
ProbeNumbers == {Mother, ShortNumber, Withheld}
ProbeDurations == {0, 3600, 3601}
ProbeHours == {5, 6, 22, 23}
ContactCounts == {0, 10, 11, 20, 21}
StrangerCounts == {0, 5, 6, 15, 16}

GetAllCallLogs(phoneNumber, duration, timestamp, contactCalls, strangerCalls) ==
  LET all == <<CallData(phoneNumber, duration, timestamp)>>
               \o Repeat(CallData(Mother, 60, 12), contactCalls)
               \o Repeat(CallData(Stranger, 60, 12), strangerCalls)
  IN  SubSeq(all, 1, IF Len(all) < MAX_CALLS_PER_BATCH THEN Len(all) ELSE MAX_CALLS_PER_BATCH)

\* The call logs of the runs and their patterns, computed once.
AnalysisOf ==
  [phoneNumber \in ProbeNumbers, duration \in ProbeDurations, timestamp \in ProbeHours,
   contactCalls \in ContactCounts, strangerCalls \in StrangerCounts |->
     LET list == GetAllCallLogs(phoneNumber, duration, timestamp, contactCalls, strangerCalls)
     IN  [analysed |-> list, patterns |-> DetectSuspiciousPatterns(list)]]

\* startCallMonitoring, with the syncExistingCalls it launches.
StartCallMonitoring(hasCallLogPermission, phoneNumber, duration, timestamp, contactCalls, strangerCalls) ==
  /\ hasCallLogPermission
  /\ ~phone.isMonitoring
  /\ phone.posted = NoCall
  /\ LET analysis == AnalysisOf[phoneNumber, duration, timestamp, contactCalls, strangerCalls]
     IN  phone' = [phone EXCEPT !.isMonitoring = TRUE,
                                !.analysed = analysis.analysed,
                                !.patterns = analysis.patterns]
  /\ UNCHANGED exceptPhone

StopCallMonitoring ==
  /\ phone.isMonitoring
  /\ phone' = [phone EXCEPT !.isMonitoring = FALSE]
  /\ UNCHANGED exceptPhone

\* processNewCall of a ringing call: createCallDataFromState gives it the
\* duration 0, and processAndSyncCall analyses it alone.
ProcessNewCall(phoneNumber, timestamp) ==
  /\ phone.isMonitoring
  /\ LET list == <<CallData(phoneNumber, 0, timestamp)>>
     IN  phone' = [phone EXCEPT !.analysed = list,
                                !.patterns = DetectSuspiciousPatterns(list)]
  /\ UNCHANGED exceptPhone

\* The server's checkSuspiciousCall, for a device that authenticateDevice
\* found: at most one alert per call.
CheckSuspiciousCall(call) ==
  LET callHour == GetHours(call.data_hora)
      isLateNight == callHour >= 23 \/ callHour <= 6
      isLongCall == call.duracao > 1800
      isUnknownNumber == call.contato_nome = "null"
      shouldAlert == isLateNight \/ isLongCall \/ (isUnknownNumber /\ call.duracao > 300)
  IN  IF shouldAlert
      THEN <<[tipo_alerta |-> "chamada_suspeita",
              prioridade |-> IF isLateNight THEN "alta" ELSE "media",
              reason |-> IF isLateNight THEN "late"
                         ELSE IF isLongCall THEN "long" ELSE "unknown"]>>
      ELSE <<>>

PostedDurations == {300, 301, 1800, 1801, 3601}
PostedHours == {5, 6, 7, 12, 22, 23}

\* POST /api/calls: Call.createCall, then checkSuspiciousCall.  These runs
\* start on a device that is not being monitored.
PostCall(numero, duracao, data_hora) ==
  /\ phone.analysed = <<>>
  /\ LET call == [numero |-> numero, contato_nome |-> GetContactName(numero),
                  duracao |-> duracao, data_hora |-> data_hora]
     IN  phone' = [phone EXCEPT !.posted = call, !.raised = CheckSuspiciousCall(call)]
  /\ UNCHANGED exceptPhone

CallInit == Init /\ workload = "burst"

CallNext ==
  \/ \E hasCallLogPermission \in Booleans, phoneNumber \in ProbeNumbers, duration \in ProbeDurations,
        timestamp \in ProbeHours, contactCalls \in ContactCounts, strangerCalls \in StrangerCounts :
       StartCallMonitoring(hasCallLogPermission, phoneNumber, duration, timestamp, contactCalls, strangerCalls)
  \/ StopCallMonitoring
  \/ \E phoneNumber \in ProbeNumbers, timestamp \in ProbeHours : ProcessNewCall(phoneNumber, timestamp)
  \/ \E numero \in {Mother, Stranger}, duracao \in PostedDurations, data_hora \in PostedHours :
       PostCall(numero, duracao, data_hora)

CallSpec == CallInit /\ [][CallNext]_vars

(* ==================== server: delivery status writes =================== *)
\* updateAlertNotificationStatus over the results that the two couriers can
\* return, for a user whose push token may be known.
StatusAlerts == 2

Priorities == {"baixa", "media", "alta", "critica"}

\* PushService.sendToFCM: success with the message_id of the FCM response,
\* success without one (no `results` in the response), or a failure.
PushSent == [success |-> TRUE, skipped |-> FALSE, messageId |-> TRUE]
PushSentNoId == [success |-> TRUE, skipped |-> FALSE, messageId |-> FALSE]

PushOutcomes == {"ok", "ok-no-id", "fail"}

SendToFCM(outcome) ==
  IF outcome = "ok" THEN PushSent
  ELSE IF outcome = "ok-no-id" THEN PushSentNoId
  ELSE Failed

\* sendPushNotification for a user with or without a push token.
SendPushWithToken(userToken, outcome) ==
  IF ~userToken THEN Skipped ELSE SendToFCM(outcome)

\* The notifications of processAlertImmediately (both couriers) and of
\* processAlert (the couriers that the priority asks for).
Notifications(inline, prioridade, emailOutcome, userToken, pushOutcome) ==
  (IF inline \/ ShouldSendEmail(prioridade)
   THEN <<[courier |-> "email", value |-> SendEmailNotification(prioridade, emailOutcome)]>>
   ELSE <<>>) \o
  (IF inline \/ ShouldSendPush(prioridade)
   THEN <<[courier |-> "push", value |-> SendPushWithToken(userToken, pushOutcome)]>>
   ELSE <<>>)

Values(notifications) == [i \in 1..Len(notifications) |-> notifications[i].value]

\* A row is stored, as by Alert.createAlert.
StoreRow(prioridade) ==
  /\ Len(status.rows) < StatusAlerts
  /\ status' = [status EXCEPT
                  !.rows = Append(@, NewRow([user_id |-> "u1", tipo_alerta |-> "app_bloqueado",
                                             prioridade |-> prioridade], now, TRUE))]
  /\ UNCHANGED exceptStatus

\* One delivery attempt on a stored row, from the couriers' results to the
\* end of updateAlertNotificationStatus.
DeliveryAttempt(id, inline, emailOutcome, userToken, pushOutcome) ==
  /\ id \in 1..Len(status.rows)
  /\ inline => status.rows[id].prioridade = "critica"
  /\ LET notifications ==
           Notifications(inline, status.rows[id].prioridade, emailOutcome, userToken, pushOutcome)
     IN  status' = [rows |-> UpdateAlertNotificationStatus(status.rows, id, Values(notifications), now),
                    last |-> [id |-> id, results |-> notifications]]
  /\ UNCHANGED exceptStatus

StatusInit == Init /\ workload = "burst"

StatusNext ==
  \/ \E prioridade \in Priorities : StoreRow(prioridade)
  \/ \E id \in 1..StatusAlerts, inline \in Booleans, emailOutcome \in {"ok", "fail"},
        userToken \in Booleans, pushOutcome \in PushOutcomes :
       DeliveryAttempt(id, inline, emailOutcome, userToken, pushOutcome)

StatusSpec == StatusInit /\ [][StatusNext]_vars

(* ------------------- server: tokens and device access ------------------ *)
\* The users table: two guardians, one with a 2fa_secret.
Guardians == {"ana", "bia"}
TwoFactor == {"ana"}
Logins == Guardians \cup {"eva"}

\* The children and devices tables: each device is linked to one child.
children == [c \in {"c1", "c2"} |-> IF c = "c1" THEN "ana" ELSE "bia"]
devices == [d \in {"d1", "d2"} |-> IF d = "d1" THEN "c1" ELSE "c2"]
DeviceIds == DOMAIN devices \cup {"d9"}

\* The locations table: the device of each stored location.
locationRows == [l \in {"l1", "l2"} |-> IF l = "l1" THEN "d1" ELSE "d2"]
LocationIds == DOMAIN locationRows \cup {"l9"}

Undefined == "undefined"
Null == "null"

\* knex `.first()`: the first row of the answer, undefined when there is none.
First(rows) == IF rows = {} THEN Undefined ELSE CHOOSE r \in rows : TRUE

\* A mutation of BelongsToUser: a missing row means no access.
BelongsWhenFound(deviceId, userId) ==
  First({d \in DOMAIN devices : d = deviceId /\ children[devices[d]] = userId}) # Undefined

\* Device.belongsToUser: `return device !== null`.
BelongsToUser(deviceId, userId) ==
  First({d \in DOMAIN devices : d = deviceId /\ children[devices[d]] = userId}) # Null

\* The token a request may present: one the server signed, or none.
Presentable == access.tokens \cup {NoToken}

\* jwt.verify: the signature is the server's and the token has not expired.
JwtVerify(token, expired) == token \in access.tokens /\ ~expired

\* authenticateToken: the status it answers, 200 standing for next().
AuthenticateToken(token, expired) ==
  IF token = NoToken THEN 401
  ELSE IF ~JwtVerify(token, expired) THEN 401
  ELSE IF token.userId \notin Guardians THEN 401
  ELSE 200

\* verifyDeviceAccess after authenticateToken.
VerifyDeviceAccess(deviceId, userId) ==
  IF ~BelongsToUser(deviceId, userId) THEN 403 ELSE 200

Respond(route, code, user, token, target) ==
  [route |-> route, status |-> code, user |-> user, token |-> token, target |-> target]

\* POST /api/auth/login.
Login(email, isValidPassword) ==
  /\ IF email \notin Guardians \/ ~isValidPassword
     THEN access' = [access EXCEPT !.last = Respond("login", 401, email, NoToken, "none")]
     ELSE LET token == [userId |-> email, requires2FA |-> email \in TwoFactor]
          IN  access' = [access EXCEPT !.tokens = @ \cup {token},
                                       !.last = Respond("login", 200, email, token, "none")]
  /\ UNCHANGED exceptAccess

\* POST /api/auth/verify-2fa.
Verify2FA(tempToken, expired, isValid2FA) ==
  /\ tempToken \in Presentable
  /\ LET code == IF tempToken = NoToken THEN 401
                 ELSE IF ~JwtVerify(tempToken, expired) THEN 401
                 ELSE IF ~tempToken.requires2FA THEN 400
                 ELSE IF tempToken.userId \notin TwoFactor \/ ~isValid2FA THEN 401
                 ELSE 200
         finalToken == [userId |-> tempToken.userId, requires2FA |-> FALSE]
     IN  IF code = 200
         THEN access' = [tokens |-> access.tokens \cup {finalToken},
                         verified |-> access.verified \cup {tempToken.userId},
                         last |-> Respond("verify-2fa", 200, tempToken.userId, finalToken, "none")]
         ELSE access' = [access EXCEPT
                           !.last = Respond("verify-2fa", code, tempToken.userId, tempToken, "none")]
  /\ UNCHANGED exceptAccess

\* GET /api/locations/stats/:deviceId: authenticateToken, verifyDeviceAccess,
\* then the handler.
LocationStats(token, expired, deviceId) ==
  /\ token \in Presentable
  /\ LET auth == AuthenticateToken(token, expired)
         code == IF auth # 200 THEN auth ELSE VerifyDeviceAccess(deviceId, token.userId)
     IN  access' = [access EXCEPT !.last = Respond("stats", code, token.userId, token, deviceId)]
  /\ UNCHANGED exceptAccess

\* PUT /api/locations/:locationId/safe-zone.
MarkSafeZone(token, expired, locationId) ==
  /\ token \in Presentable
  /\ LET auth == AuthenticateToken(token, expired)
         code == IF auth # 200 THEN auth
                 ELSE IF locationId \notin DOMAIN locationRows THEN 404
                 ELSE IF ~BelongsToUser(locationRows[locationId], token.userId) THEN 403
                 ELSE 200
         device == IF locationId \in DOMAIN locationRows THEN locationRows[locationId]
                   ELSE "none"
     IN  access' = [access EXCEPT !.last = Respond("safe-zone", code, token.userId, token, device)]
  /\ UNCHANGED exceptAccess

AccessInit == Init /\ workload = "burst"

AccessNext ==
  \/ \E email \in Logins, isValidPassword \in Booleans : Login(email, isValidPassword)
  \/ \E tempToken \in Presentable, expired \in Booleans, isValid2FA \in Booleans :
       Verify2FA(tempToken, expired, isValid2FA)
  \/ \E token \in Presentable, expired \in Booleans, deviceId \in DeviceIds :
       LocationStats(token, expired, deviceId)
  \/ \E token \in Presentable, expired \in Booleans, locationId \in LocationIds :
       MarkSafeZone(token, expired, locationId)

AccessSpec == AccessInit /\ [][AccessNext]_vars

(* ============================== claims ================================= *)
Delivering(id) == \E l \in 1..MaxLoops : loops[l].pc = "deliver" /\ loops[l].item.alert = id

Throttled(id) == alerts[id].tipo_alerta \in DOMAIN throttleConfig

SameKey(a, b) == /\ alerts[a].user_id = alerts[b].user_id
                 /\ alerts[a].tipo_alerta = alerts[b].tipo_alerta

AllFail(log) == \A i \in 1..Len(log) : log[i] = "fail"

\* C1: for every key of a type with maxPerHour = N, at most N alerts admitted
\* by addAlert are persisted within any trailing 60 minutes.
C1_HourlyCap ==
  \A a \in AlertIds :
    (alerts[a].gate /\ Throttled(a)) =>
      Cardinality({ b \in AlertIds :
                      /\ alerts[b].gate
                      /\ SameKey(a, b)
                      /\ alerts[b].data_hora > alerts[a].data_hora - HourMinutes
                      /\ alerts[b].data_hora <= alerts[a].data_hora })
        <= throttleConfig[alerts[a].tipo_alerta].maxPerHour

\* C2: two alerts admitted by addAlert for the same key of a throttled type
\* are persisted at least cooldownMinutes apart.
C2_Cooldown ==
  \A a, b \in AlertIds :
    (a < b /\ alerts[a].gate /\ alerts[b].gate /\ SameKey(a, b) /\ Throttled(a)) =>
      alerts[b].data_hora - alerts[a].data_hora
        >= throttleConfig[alerts[a].tipo_alerta].cooldownMinutes

\* C3: an alert of priority 'critica' is never on processingQueue and never
\* handed to the worker.
C3_CriticalNeverQueued ==
  \A a \in AlertIds :
    alerts[a].prioridade = "critica" => ~InQueue(a) /\ ~Delivering(a)

\* C4: when the email courier has failed k < maxRetries times for an alert
\* and then succeeded, it has been invoked exactly k + 1 times for that
\* alert and email_enviado is true.
C4_FailKThenSucceed ==
  \A a \in AlertIds : \A k \in 0..(maxRetries - 1) :
    ( /\ Len(emailLog[a]) >= k + 1
      /\ AllFail(SubSeq(emailLog[a], 1, k))
      /\ emailLog[a][k + 1] = "ok" )
    => (Len(emailLog[a]) = k + 1 /\ alerts[a].email_enviado)

\* C5 as stated: once the worker has made maxRetries delivery attempts for
\* an alert, each of which invoked the email courier and failed, the item is
\* no longer on processingQueue.
C5_GoneAfterMaxRetriesAttempts ==
  \A a \in AlertIds :
    ( /\ attempts[a] = maxRetries
      /\ ~Delivering(a)
      /\ Len(emailLog[a]) = attempts[a]
      /\ AllFail(emailLog[a]) )
    => ~InQueue(a)

\* C5 as amended: while the email courier has failed on every invocation
\* email_enviado is false, and once the worker has made maxRetries + 1
\* delivery attempts for an alert the item is no longer on processingQueue.
C5_GoneAfterAllRetries ==
  \A a \in AlertIds :
    /\ AllFail(emailLog[a]) => ~alerts[a].email_enviado
    /\ (attempts[a] >= maxRetries + 1 /\ ~Delivering(a)) => ~InQueue(a)

C5_Witness ==
  \E a \in AlertIds :
    /\ attempts[a] = maxRetries + 1
    /\ Len(emailLog[a]) = maxRetries + 1
    /\ AllFail(emailLog[a])
    /\ ~Delivering(a) /\ ~InQueue(a)
    /\ ~alerts[a].email_enviado

\* The worker only runs in the workloads other than "burst".
WorkerAlertIds == 1..(CHOOSE n \in {MaxAlerts(w) : w \in Workloads \ {"burst"}} :
                        \A w \in Workloads \ {"burst"} : MaxAlerts(w) <= n)

\* C6: while isProcessing is true a worker loop is alive, and every item on
\* processingQueue is eventually handed to processAlert (unless the worker
\* is stopped first).
C6_EveryItemAttempted ==
  /\ [](isProcessing => \E l \in 1..MaxLoops : loops[l].pc # "none")
  /\ \A a \in WorkerAlertIds :
       (isProcessing /\ InQueue(a)) ~> (Delivering(a) \/ ~isProcessing)

\* An item admitted later is being attempted while an earlier item, which
\* failed and was put back, waits on the queue.
C6_Witness ==
  \E a, b \in AlertIds :
    /\ a < b
    /\ Delivering(b)
    /\ \E i \in 1..Len(processingQueue) :
         processingQueue[i].alert = a /\ processingQueue[i].retries >= 1

\* C7: every persisted alert was admitted by the throttle gate (inserted by
\* addAlert after shouldThrottle).
C7_PersistedOnlyViaGate == \A a \in AlertIds : alerts[a].gate

\* C8: no two addAlert calls for the same key of a throttled type are at the
\* same time between their throttle check and their window append.
C8_NoOverlappingAdmission ==
  \A i, j \in 1..Len(creating) :
    (i < j /\ CacheKey(creating[i]) = CacheKey(creating[j]))
      => creating[i].tipo_alerta \notin DOMAIN throttleConfig

\* C9: a step in which addAlert returns 'throttled' creates no alert, leaves
\* processingQueue and recentAlerts unchanged, starts no createAlert and
\* invokes no courier.
C9_ThrottledIsNoOp ==
  [][(lastReturn # "throttled" /\ lastReturn' = "throttled") =>
       UNCHANGED <<alerts, processingQueue, recentAlerts, creating, inlineCalls,
                   emailLog, attempts, pushCalls>>]_vars

C9_Witness == lastReturn = "throttled" /\ Len(alerts) >= 1

\* C10: a step in which a pending createAlert settles without a new row
\* makes addAlert return the error, puts no call back into createAlert, and
\* leaves processingQueue, recentAlerts and the couriers untouched.
C10_FailedPersist ==
  [][(Len(creating') < Len(creating) /\ Len(alerts') = Len(alerts)) =>
       /\ lastReturn' = "error"
       /\ Len(creating') = Len(creating) - 1
       /\ UNCHANGED <<alerts, processingQueue, recentAlerts, inlineCalls, emailLog, pushCalls>>]_vars

C10_Witness == lastReturn = "error" /\ Len(alerts) >= 1

\* The attributes of a row other than lido, email_enviado, push_enviado and
\* updated_at.
Content(row) ==
  <<row.user_id, row.tipo_alerta, row.prioridade, row.dados_extras, row.data_hora>>

\* C11 as stated: no step changes tipo_alerta, prioridade or dados_extras of
\* an existing alert, and the only attributes of an existing alert that a
\* step writes are lido, email_enviado and push_enviado.
C11_OnlyFlagsWritten ==
  [][\A a \in AlertIds :
       /\ Content(alerts'[a]) = Content(alerts[a])
       /\ alerts'[a].updated_at = alerts[a].updated_at]_vars

\* C11, amended: no step changes tipo_alerta, prioridade or dados_extras of
\* an existing alert; the attributes written are lido, email_enviado,
\* push_enviado and the updated_at stamp.
C11_ContentImmutable ==
  [][\A a \in AlertIds : Content(alerts'[a]) = Content(alerts[a])]_vars

\* An alert whose email was delivered and that was marked read some time
\* after it was created.
C11_Witness ==
  \E a \in AlertIds :
    /\ alerts[a].lido /\ alerts[a].email_enviado
    /\ alerts[a].updated_at > alerts[a].data_hora

\* The step in which loop l's call of processAlert returns.
AttemptEnds(l) == loops[l].pc = "deliver" /\ loops'[l].pc = "head"

\* C12: a delivery attempt of the worker invokes the email courier iff the
\* alert's priority is 'alta' or 'critica' and the push courier iff it is
\* not 'baixa'; an alert of priority 'baixa' is not re-enqueued.
C12_CouriersByPriority ==
  [][\A l \in 1..MaxLoops :
       AttemptEnds(l) =>
         LET id == loops[l].item.alert
             p == alerts[id].prioridade
         IN  /\ Len(emailLog'[id]) > Len(emailLog[id]) <=> p \in {"alta", "critica"}
             /\ pushCalls'[id] > pushCalls[id] <=> p # "baixa"
             /\ p = "baixa" => ~InQueue(id)']_vars

\* A timestamp that is 60 minutes old or older at time t.
Stale(ts, t) == ts <= t - HourMinutes

Fresh(ts) == ~Stale(ts, now)

\* A step that removes timestamps from the window map: a sweep.
Sweeps ==
  \E k \in DOMAIN recentAlerts :
    \/ k \notin DOMAIN recentAlerts'
    \/ Len(recentAlerts'[k]) < Len(recentAlerts[k])

CourierFailed(l) ==
  LET id == loops[l].item.alert
  IN  /\ Len(emailLog'[id]) > Len(emailLog[id])
      /\ emailLog'[id][Len(emailLog'[id])] = "fail"

\* The item of the attempt is appended once, at the tail, one retry older.
Requeued(l) ==
  processingQueue' =
    Append(processingQueue, [alert |-> loops[l].item.alert,
                             retries |-> loops[l].item.retries + 1])

Dropped(l) ==
  /\ processingQueue' = processingQueue
  /\ ~InQueue(loops[l].item.alert)'

\* C19 as stated: after a delivery attempt the item is re-enqueued at the
\* tail with retries + 1 iff an invoked courier failed and retries <
\* maxRetries; otherwise it is absent from the queue.
C19_RequeueIffCourierFailed ==
  [][\A l \in 1..MaxLoops :
       AttemptEnds(l) =>
         IF CourierFailed(l) /\ loops[l].item.retries < maxRetries
         THEN Requeued(l) ELSE Dropped(l)]_vars

\* C19, amended: the item is re-enqueued at the tail with retries + 1 iff
\* retries < maxRetries and either an invoked courier failed or the attempt
\* threw; otherwise it is absent from the queue.
C19_RequeueIffFailedOrThrew ==
  [][\A l \in 1..MaxLoops :
       AttemptEnds(l) =>
         IF /\ CourierFailed(l) \/ loops'[l].threw
            /\ loops[l].item.retries < maxRetries
         THEN Requeued(l) ELSE Dropped(l)]_vars

\* An attempt has just thrown and its item is back at the tail.
C19_Witness ==
  \E l \in 1..MaxLoops :
    /\ loops[l].pc = "head" /\ loops[l].threw
    /\ processingQueue # <<>>
    /\ processingQueue[Len(processingQueue)].retries >= 1

\* A step in which loop l starts a delivery attempt.
AttemptStarts(l) == loops[l].pc # "deliver" /\ loops'[l].pc = "deliver"

AppendsAtTail ==
  /\ Len(processingQueue') = Len(processingQueue) + 1
  /\ SubSeq(processingQueue', 1, Len(processingQueue)) = processingQueue

\* C20: the queue only changes by an append at the tail or by the removal
\* of its head, and a delivery attempt always starts with the head: entries
\* are attempted in the order of their appends.
C20_Fifo ==
  [][/\ processingQueue' # processingQueue =>
          \/ AppendsAtTail
          \/ /\ processingQueue # <<>>
             /\ processingQueue' = Tail(processingQueue)
             /\ \E l \in 1..MaxLoops : AttemptStarts(l)
     /\ \A l \in 1..MaxLoops :
          AttemptStarts(l) =>
            /\ processingQueue # <<>>
            /\ loops'[l].item = Head(processingQueue)
            /\ processingQueue' = Tail(processingQueue)]_vars

\* A retried entry waits at the head, in front of the entry of another alert
\* that was admitted after the first attempt.
C20_Witness ==
  /\ Len(processingQueue) >= 2
  /\ processingQueue[1].retries >= 1
  /\ processingQueue[2].retries = 0
  /\ processingQueue[1].alert # processingQueue[2].alert

\* The number of keywords of a list that occur in the lower-cased content.
Hits(content, keywords) ==
  LET lower == Lowercase(content)
  IN  Cardinality({i \in 1..Len(keywords) : Contains(lower, keywords[i])})

Indicator(b) == IF b THEN 1 ELSE 0

\* The score of C14: tier hits, sender, URL and urgency terms only.
StatedScore(m) ==
    25 * Hits(m.content, HIGH_RISK_KEYWORDS)
  + 15 * Hits(m.content, MEDIUM_RISK_KEYWORDS)
  + 5 * Hits(m.content, LOW_RISK_KEYWORDS)
  + 20 * Indicator(IsSpamNumber(m.phoneNumber))
  + 10 * Indicator(~m.contactKnown)
  + 10 * Indicator(Contains(Lowercase(m.content), <<"h", "t", "t", "p">>)
                   \/ Contains(Lowercase(m.content), <<"w", "w", "w">>))
  + 8 * Hits(m.content, urgencyPatterns)

\* What the code adds for the form of the text.
StyleScore(m) ==
    5 * Indicator(Len(m.content) > LongMessageLength)
  + 5 * Indicator(Cardinality({i \in 1..Len(m.content) : IsUpperCase(m.content[i])}) * 2
                  > Len(m.content))

AtMost100(n) == IF n > 100 THEN 100 ELSE n

\* C14 as stated: the risk score is min(100, 25 H + 15 M + 5 L + 20 [spam
\* sender] + 10 [unknown contact] + 10 [URL] + 8 U), nothing else counted.
C14_ScoreFormula ==
  sms.last # NoMessage => sms.last.riskScore = AtMost100(StatedScore(sms.last))

\* C14, amended: the risk score is the minimum of 100 and the stated sum
\* plus 5 for a text longer than 500 characters plus 5 for a text of which
\* more than half the characters are upper case.
C14_ScoreFormulaWithStyle ==
  sms.last # NoMessage =>
    sms.last.riskScore = AtMost100(StatedScore(sms.last) + StyleScore(sms.last))

\* A long message with a high-risk keyword whose score stays under the cap.
C14_Witness ==
  /\ sms.last # NoMessage
  /\ Len(sms.last.content) > LongMessageLength
  /\ Hits(sms.last.content, HIGH_RISK_KEYWORDS) >= 1
  /\ sms.last.riskScore < 100

\* C15: the message "let's meet and smoke maconha tonight" scores at least
\* 70 and raises the high-risk alert.
C15_SmokeMessageIsHighRisk ==
  (sms.last # NoMessage /\ sms.last.content = SmokeMessage) =>
    /\ sms.last.riskScore >= HIGH_RISK_THRESHOLD
    /\ sms.alert = "HIGH_RISK_MESSAGE"

(* --------------------------- location claims --------------------------- *)
LastFix == locations.rows[Len(locations.rows)]

StoredBefore == SubSeq(locations.rows, 1, Len(locations.rows) - 1)

Raised(alert_type) ==
  \E k \in 1..Len(locations.raised) : locations.raised[k].alert_type = alert_type

\* The fix lies in the home cluster that the request computed.
InsideHome ==
  LET homeCluster == HomeCluster(locations.rows, locations.clock)
  IN  /\ homeCluster.count >= MinHomeCount
      /\ CalculateDistance(LastFix.pos, homeCluster.center) <= clusterRadius

\* C16: a fix recorded between 22:00 and 06:00 raises the 'fora_horario'
\* alert only if it lies outside the learned home cluster; a night-time fix
\* inside the home cluster raises no such alert.
C16_OutOfHoursOnlyAwayFromHome ==
  (locations.rows # <<>> /\ Raised("fora_horario")) => ~InsideHome

\* The case of C17: at least 20 stored fixes, all of the last 30 days, on at
\* least 10 distinct days and within 150 m of each other, and then a fix at
\* least 15 km from each of them.
FarFromClusteredFixes ==
  /\ Len(locations.rows) > 20
  /\ LET stored == StoredBefore
         ids == 1..Len(stored)
     IN  /\ \A i \in ids : stored[i].data_hora >= locations.clock - WindowDays * DayHours
         /\ Cardinality({stored[i].data_hora \div DayHours : i \in ids}) >= 10
         /\ \A i, j \in ids : CalculateDistance(stored[i].pos, stored[j].pos) <= 150
         /\ \A i \in ids : CalculateDistance(LastFix.pos, stored[i].pos) >= 15000

\* C17: 20 stored fixes within 150 m of each other, over 10 distinct days of
\* the trailing 30, are the home cluster, and a 21st fix 15 km away raises a
\* 'far_from_home' alert of priority 'media'.
C17_FarFromHomeRaised ==
  FarFromClusteredFixes =>
    /\ HomeCluster(locations.rows, locations.clock) =
          [center |-> StoredBefore[Len(StoredBefore)].pos, count |-> Len(StoredBefore)]
    /\ \E k \in 1..Len(locations.raised) :
          locations.raised[k] = LocationAlert("media", "far_from_home")

C17_Witness ==
  /\ FarFromClusteredFixes
  /\ Len(locations.rows) = 21
  /\ Raised("far_from_home")

(* ----------------------------- call claims ----------------------------- *)
CallsFrom(number) == SelectSeq(phone.analysed, LAMBDA c : c.phoneNumber = number)

LongCallsFrom(number) ==
  SelectSeq(phone.analysed, LAMBDA c : c.phoneNumber = number /\ c.duration > 3600)

OddHourCallsFrom(number) ==
  SelectSeq(phone.analysed,
            LAMBDA c : c.phoneNumber = number /\ (HourOfDay(c.timestamp) < 6 \/ HourOfDay(c.timestamp) > 22))

UnknownCalls == SelectSeq(phone.analysed, LAMBDA c : c.isBlocked \/ c.contactName = "null")

AnalysedNumbers == {phone.analysed[i].phoneNumber : i \in 1..Len(phone.analysed)}

\* The candidates that the four rules name for the analysed calls, each with
\* its related calls.
StatedCandidates ==
  {<<"EXCESSIVE_CALLS", CallsFrom(n)>> : n \in {m \in AnalysedNumbers : Len(CallsFrom(m)) > 10}}
    \cup {<<"LONG_DURATION", LongCallsFrom(n)>> : n \in {m \in AnalysedNumbers : LongCallsFrom(m) # <<>>}}
    \cup {<<"SUSPICIOUS_HOURS", OddHourCallsFrom(n)>> : n \in {m \in AnalysedNumbers : OddHourCallsFrom(m) # <<>>}}
    \cup (IF Len(UnknownCalls) > 5 THEN {<<"UNKNOWN_NUMBERS", UnknownCalls>>} ELSE {})

FoundCandidates ==
  {<<phone.patterns[k].type, phone.patterns[k].relatedCalls>> : k \in 1..Len(phone.patterns)}

\* The device's patterns are the stated candidates, one pattern each, and a
\* number's excess of calls is high risk iff it has more than 20 calls.
DevicePatternsAsStated ==
  /\ FoundCandidates = StatedCandidates
  /\ Cardinality(FoundCandidates) = Len(phone.patterns)
  /\ \A k \in 1..Len(phone.patterns) :
        phone.patterns[k].type = "EXCESSIVE_CALLS" =>
          (phone.patterns[k].riskLevel = "HIGH" <=> Len(phone.patterns[k].relatedCalls) > 20)

\* The server flags a posted call iff one of the rules for a single call
\* matches it: longer than 3600 s, or at an hour < 6 or > 22.
ServerAlertsAsStated ==
  phone.posted # NoCall =>
    (phone.raised # <<>> <=>
       \/ phone.posted.duracao > 3600
       \/ GetHours(phone.posted.data_hora) < 6
       \/ GetHours(phone.posted.data_hora) > 22)

\* C18: the call pattern detector flags exactly these patterns and nothing
\* else: more than 10 calls from one number (high risk iff more than 20),
\* any call longer than 3600 s, any call at an hour < 6 or > 22, and more
\* than 5 calls from blocked or unknown numbers; each matched rule yields its
\* own candidate with its own related calls.
C18_ExactlyTheStatedPatterns == DevicePatternsAsStated /\ ServerAlertsAsStated


(* ------------------------ worker lifecycle claims ---------------------- *)
ActiveLoops == {l \in 1..MaxLoops : loops[l].pc # "none"}

DeliveringLoops == {l \in 1..MaxLoops : loops[l].pc = "deliver"}

\* C21: after any sequence of startProcessing and stopProcessing calls at
\* most one processQueue loop is active, so the worker never has two
\* delivery attempts in flight at the same time.
C21_SingleLoop ==
  /\ Cardinality(ActiveLoops) <= 1
  /\ Cardinality(DeliveringLoops) <= 1


QueuedItems ==
  {processingQueue[i] : i \in 1..Len(processingQueue)}
    \cup {loops[l].item : l \in DeliveringLoops}

\* C22: every item in processingQueue has 0 <= retries <= maxRetries, and
\* the worker attempts the delivery of any one item at most maxRetries + 1
\* times.
C22_RetriesBounded ==
  /\ \A item \in QueuedItems : item.retries >= 0 /\ item.retries <= maxRetries
  /\ \A id \in AlertIds : attempts[id] <= maxRetries + 1

\* An item is attempted for the last time, after maxRetries retries.
C22_Witness ==
  \E l \in DeliveringLoops :
    /\ loops[l].item.retries = maxRetries
    /\ attempts[loops[l].item.alert] = maxRetries + 1


(* ------------------------- delivery flag claims ------------------------ *)
\* C23: once a stored alert's email_enviado (respectively push_enviado) is
\* true, no later delivery attempt for that alert writes it back to false.
C23_FlagsMonotone ==
  [][\A id \in AlertIds :
       /\ alerts[id].email_enviado => alerts'[id].email_enviado
       /\ alerts[id].push_enviado => alerts'[id].push_enviado]_vars


Reported(courier) ==
  \E k \in 1..Len(status.last.results) :
    /\ status.last.results[k].courier = courier
    /\ status.last.results[k].value.success
    /\ ~status.last.results[k].value.skipped

NoNewAttempts ==
  \A id \in DOMAIN attempts :
    attempts[id] = IF id \in DOMAIN stopping.attempted THEN stopping.attempted[id] ELSE 0

\* The items shutdown() found in the queue still head the queue, in order.
FoundStillQueued ==
  /\ Len(stopping.found) <= Len(processingQueue)
  /\ SubSeq(processingQueue, 1, Len(stopping.found)) = stopping.found

ShutdownKeepsQueue ==
  stopping.pc # "idle" =>
    /\ stopping.waits <= MaxShutdownWaits
    /\ NoNewAttempts
    /\ FoundStillQueued

AdmittedThisHour(tipo) ==
  Cardinality({id \in AlertIds : /\ alerts[id].tipo_alerta = tipo
                                 /\ alerts[id].data_hora > now - HourMinutes})

\* C26: with the shipped configuration and calls that do not overlap, a
\* key's admissions of the trailing hour stay below maxPerHour, the hourly
\* limit is never reached and whatever is suppressed is inside the cooldown.
C26_CooldownDecides ==
  \A d \in AlertInputs(workload) :
    d.tipo_alerta \in ThrottledTypes =>
      /\ AdmittedThisHour(d.tipo_alerta) < throttleConfig[d.tipo_alerta].maxPerHour
      /\ ~HourlyCapReached(recentAlerts, d, now)
      /\ ShouldThrottle(recentAlerts, d, now) => InCooldown(recentAlerts, d, now)

\* The tightest type: a second 'dispositivo_offline' alert was admitted when
\* the first had just left the hour, and a third call was suppressed.
C26_Witness ==
  /\ workload = "dispositivo_offline"
  /\ Len(alerts) >= 2
  /\ AdmittedThisHour(workload) = throttleConfig[workload].maxPerHour - 1
  /\ lastReturn = "throttled"
  /\ creating = <<>>


(* ------------------------- missing user claims ------------------------- *)
\* Loop l's attempt ends in this step on a lookup that found no user.
UserMissing(l) == loops[l].pc = "deliver" /\ loops'[l].pc = "head" /\ loops'[l].missing

\* C27: a worker attempt whose User.findById finds no user invokes no
\* courier, writes no row and leaves the queue without the item.
C27_MissingUserDrops ==
  [][\A l \in 1..MaxLoops :
       UserMissing(l) =>
         /\ emailLog' = emailLog
         /\ pushCalls' = pushCalls
         /\ alerts' = alerts
         /\ processingQueue' = processingQueue
         /\ \A i \in 1..Len(processingQueue') :
              processingQueue'[i].alert # loops[l].item.alert]_vars

\* The only alert went through a retry before its user was found missing:
\* it is gone from the queue with both flags still false.
C27_Witness ==
  /\ Len(alerts) = 1
  /\ attempts[1] >= 2
  /\ \E l \in 1..MaxLoops : loops[l].pc = "head" /\ loops[l].missing
  /\ processingQueue = <<>>
  /\ ~alerts[1].email_enviado /\ ~alerts[1].push_enviado


(* --------------------------- sweep claims ------------------------------ *)
\* The alerts the sweep found whose addAlert call has returned.
SweptAlerts ==
  {sweep.found[i] : i \in 1..(Len(sweep.found) - Len(sweep.rest))}
    \ {creating[i].id : i \in {j \in 1..Len(creating) : "id" \in DOMAIN creating[j]}}

\* An alert is queued, in delivery, or was attempted since the sweep began.
QueuedForDelivery(id) ==
  \/ InQueue(id)
  \/ \E l \in 1..MaxLoops : loops[l].pc = "deliver" /\ loops[l].item.alert = id
  \/ attempts[id] > sweep.attempted[id]

\* C28: the sweep creates no alert: createAlert is not called for a row
\* that is already persisted, and each alert it found is queued as that row.
C28_SweepQueuesExistingRows ==
  /\ \A i \in 1..Len(creating) : "id" \notin DOMAIN creating[i]
  /\ \A id \in SweptAlerts : QueuedForDelivery(id)


(* --------------------------- access claims ----------------------------- *)
\* The last request went through authenticateToken and passed it.
PassedAuthentication ==
  /\ access.last.route \in {"stats", "safe-zone"}
  /\ access.last.status # 401

\* C29: a request of a guardian with 2FA passes authenticateToken only with
\* a token of a session that completed /verify-2fa, never with the
\* temporary token of /login.
C29_TempTokenOnlyForVerify ==
  PassedAuthentication /\ access.last.user \in TwoFactor =>
    /\ ~access.last.token.requires2FA
    /\ access.last.user \in access.verified

\* The device is linked to a child of the user.
LinkedToChildOf(deviceId, userId) ==
  deviceId \in DOMAIN devices /\ children[devices[deviceId]] = userId

\* C30: belongsToUser is true only for a device linked to a child of the
\* user, so a device-scoped request for any other device is answered 403.
C30_ForeignDeviceDenied ==
  PassedAuthentication /\ access.last.target # "none" =>
    LET deviceId == access.last.target
        userId == access.last.user
    IN  /\ BelongsToUser(deviceId, userId) => LinkedToChildOf(deviceId, userId)
        /\ ~LinkedToChildOf(deviceId, userId) => access.last.status = 403

====
